---- MODULE Spec2Model ----
(***************************************************************************)
(* Verification model of the projection subsystem of the persistent mind   *)
(* model: the recursive self-model (pmm/core/rsm.py), the claim migrator   *)
(* (pmm/core/claim_migration.py) with the claim extractor                  *)
(* (pmm/core/claim_extractor.py) and the meme graph                        *)
(* (pmm/core/meme_graph.py).                                               *)
(*                                                                         *)
(* Three specifications share the module: SpecRSM (the self-model fed by   *)
(* an event log), SpecMig (the migrator on a ledger) and SpecMG (the meme  *)
(* graph).  Each leaves the variables of the other two at their initial    *)
(* values.                                                                 *)
(*                                                                         *)
(* Conventions.  Strings that the code only compares are TLA+ strings; a   *)
(* key that is absent from a dictionary is the value None.  Claim ids of   *)
(* the self-model are naturals standing for the hex strings in their       *)
(* lexicographic order, 0 standing for the absent or empty id.  Strengths  *)
(* are hundredths (100 = 1.0); every real number of a snapshot is a        *)
(* fraction <<num, den>> in lowest terms.                                  *)
(***************************************************************************)
EXTENDS Integers, Sequences, FiniteSets, TLC

VARIABLES
    log,        \* SpecRSM: the event log, a sequence of events; id = position
    rsm,        \* SpecRSM: the fields of the RecursiveSelfModel object
    stack,      \* SpecRSM: the observe() calls in progress, innermost last
    mode,       \* SpecRSM: "manual" (observe called by hand) or "listen"
    pool,       \* SpecRSM: the events external producers draw from
    nExt,       \* SpecRSM: number of external appends so far
    burst,      \* SpecRSM: rsm_update appends since the last external append
    dropped,    \* SpecRSM: the last step was an observe() the watermark dropped
    elog,       \* SpecMig: the ledger
    mig,        \* SpecMig: the migrate call in progress: its position (pc), the
                \*   claims still to emit, emitted_count, and what it read
    mhist,      \* SpecMig: the last thing done to the ledger (an external
                \*   append, a call in progress, a return, a crash), what came
                \*   before the call that returned, its return value, the length
                \*   of the ledger it read and the number of extracted claim
                \*   ids that had no claim_register then
    mlog,       \* SpecMG: the ledger behind the graph
    graph,      \* SpecMG: the MemeGraph's DiGraph: nodes in insertion order,
                \*   their kind attribute, and the labelled edges <<u, v, label>>
    mfed,       \* SpecMG: where the graph comes from: "fresh" or "rebuilt", and
                \*   the ids given to add_event since, in call order
    writer,     \* SpecThreads: the writer thread: its position (idle, or inside
                \*   add_event or rebuild with the lock held) and the number
                \*   of ledger events it has given to the graph
    reader,     \* SpecThreads: the reader thread: its position, its query and
                \*   the query's locals and result, and the graphs that
                \*   existed between writer operations since the query began
    xin,        \* SpecExtract: the events given to the extractor, in call order
    xout        \* SpecExtract: the lists of claims it returned, in call order

rsmVars == <<log, rsm, stack, mode, pool, nExt, burst, dropped>>
migVars == <<elog, mig, mhist>>
thrVars == <<writer, reader>>
mgVars  == <<mlog, graph, mfed, writer, reader>>
exVars  == <<xin, xout>>
vars    == <<log, rsm, stack, mode, pool, nExt, burst, dropped,
             elog, mig, mhist, mlog, graph, mfed, writer, reader, xin, xout>>

-----------------------------------------------------------------------------
(* Helpers *)

None == "None"

Range(s) == {s[i] : i \in DOMAIN s}

Last(s) == s[Len(s)]

IsPrefix(s, t) == Len(s) <= Len(t) /\ \A i \in 1..Len(s) : s[i] = t[i]

RECURSIVE GCD(_, _)
GCD(a, b) == IF b = 0 THEN a ELSE GCD(b, a % b)

\* The real number n/d as a fraction in lowest terms (d > 0).
Frac(n, d) == LET g == GCD(n, d) IN IF n = 0 THEN <<0, 1>> ELSE <<n \div g, d \div g>>

\* sorted(set(...)) of integers
RECURSIVE SortedInts(_)
SortedInts(S) ==
    IF S = {} THEN <<>>
    ELSE LET m == CHOOSE x \in S : \A y \in S : x <= y
         IN  <<m>> \o SortedInts(S \ {m})

\* The strings the model sorts, in Python's string order.
StringOrder ==
    <<"always", "closes", "commits_to", "deterministic", "is_deterministic",
      "knowledge_gap", "novelty",
      "p01", "p02", "p03", "p04", "p05", "p06", "p07", "p08", "p09",
      "physics", "prioritizes", "reflects_on", "related", "replay",
      "replies_to", "stability">>

StrRank(s) == CHOOSE i \in DOMAIN StringOrder : StringOrder[i] = s

\* sorted(set(...)) of strings
RECURSIVE SortedStrs(_)
SortedStrs(S) ==
    IF S = {} THEN <<>>
    ELSE LET m == CHOOSE x \in S : \A y \in S : StrRank(x) <= StrRank(y)
         IN  <<m>> \o SortedStrs(S \ {m})

RECURSIVE SumOver(_, _)
SumOver(S, f) ==
    IF S = {} THEN 0
    ELSE LET x == CHOOSE y \in S : TRUE IN f[x] + SumOver(S \ {x}, f)

-----------------------------------------------------------------------------
(* The recursive self-model: data *)

\* Optional[int] None of _last_processed_event_id; event ids start at 1.
NoneId == 0

\* A claim dictionary as json.loads returns it.  A key the dictionary lacks
\* holds what the code's .get() gives for it: None for claim_id (0), type,
\* subject, predicate, object and status, False for negated, 1.0 for strength.
MkClaim(id, ty, su, pr, ob, ng, st, sta) ==
    [claim_id |-> id, type |-> ty, subject |-> su, predicate |-> pr,
     object |-> ob, negated |-> ng, strength |-> st, status |-> sta]

NoClaim == MkClaim(0, None, None, None, None, FALSE, 100, None)

\* Event contents: what json.loads makes of the content string.
\*   tag "malformed": json.loads raises;  "nonobj": valid JSON, not an object;
\*   "obj": an object, read as a claim (claim) or as a reflection (intent);
\*   "text": free text of a message.
\*   "json": the canonical JSON of a snapshot (snapshot = <<s>>).
Content(tag, c, i)   == [tag |-> tag, claim |-> c, intent |-> i, snapshot |-> <<>>]
ClaimContent(c)      == Content("obj", c, None)
ReflectionContent(i) == Content("obj", NoClaim, i)
MalformedContent     == Content("malformed", NoClaim, None)
NonObjectContent     == Content("nonobj", NoClaim, None)
TextContent          == Content("text", NoClaim, None)

Truthy(s) == s # None /\ s # ""

\* str.lower() on the strings of the model
Lower(s) ==
    CASE s = "BELIEF"   -> "belief"
      [] s = "VALUE"    -> "value"
      [] s = "TENDENCY" -> "tendency"
      [] s = "IDENTITY" -> "identity"
      [] s = "CLAIM"    -> "claim"
      [] s = "ONTOLOGY" -> "ontology"
      [] OTHER          -> s

\* '"unknown" in predicate or "gap" in predicate' on the strings of the model
MentionsGap(p) == p \in {"knowledge_gap", "unknown"}

-----------------------------------------------------------------------------
(* The recursive self-model: aggregates (rsm.py, _compute_aggregates) *)

ActiveIds(claims) == {c \in DOMAIN claims : claims[c].status = "active"}

TypeCount(claims, t) ==
    Cardinality({c \in ActiveIds(claims) :
                    Truthy(claims[c].type) /\ Lower(claims[c].type) = t})

PredicateCount(claims, p) ==
    Cardinality({c \in ActiveIds(claims) : claims[c].predicate = p})

PredicateStrength(claims, p) ==
    SumOver({c \in ActiveIds(claims) : claims[c].predicate = p},
            [c \in DOMAIN claims |-> claims[c].strength])

\* The summed strength over the number of matching claims
EmphasisOverMatches(claims, p1, p2) ==
    LET m == PredicateCount(claims, p1) + PredicateCount(claims, p2)
        n == IF m < 1 THEN 1 ELSE m
        s == PredicateStrength(claims, p1) + PredicateStrength(claims, p2)
    IN  IF s >= 100 * n THEN <<1, 1>> ELSE Frac(s, 100 * n)

\* min(1.0, (strengths[p1] + strengths[p2]) / max(1, len(active_claims)))
Emphasis(claims, p1, p2) ==
    LET n == IF Cardinality(ActiveIds(claims)) < 1 THEN 1
             ELSE Cardinality(ActiveIds(claims))
        s == PredicateStrength(claims, p1) + PredicateStrength(claims, p2)
    IN  IF s >= 100 * n THEN <<1, 1>> ELSE Frac(s, 100 * n)

EmphasisGroups ==
    [determinism_emphasis |-> <<"is_deterministic", "deterministic">>,
     replay_centricity    |-> <<"is_replay_centric", "replay">>,
     stability_emphasis   |-> <<"prioritizes_stability", "stability">>,
     support_awareness    |-> <<"support_aware", "support_awareness">>]

CountKeys ==
    [belief_count |-> "belief", value_count |-> "value",
     tendency_count |-> "tendency", identity_count |-> "identity"]

BehavioralTendencies(claims) ==
    LET keys == {k \in DOMAIN CountKeys : TypeCount(claims, CountKeys[k]) > 0}
                \cup {k \in DOMAIN EmphasisGroups :
                         \/ PredicateCount(claims, EmphasisGroups[k][1]) > 0
                         \/ PredicateCount(claims, EmphasisGroups[k][2]) > 0}
                \cup {"active_claim_count"}
    IN  [k \in keys |->
            IF k = "active_claim_count"
              THEN <<Cardinality(ActiveIds(claims)), 1>>
            ELSE IF k \in DOMAIN CountKeys
              THEN <<TypeCount(claims, CountKeys[k]), 1>>
            ELSE Emphasis(claims, EmphasisGroups[k][1], EmphasisGroups[k][2])]

KnowledgeGaps(claims) ==
    SortedStrs({claims[c].object : c \in
        {d \in ActiveIds(claims) :
            /\ claims[d].predicate # None
            /\ MentionsGap(Lower(claims[d].predicate))
            /\ Truthy(claims[d].object)}})

\* _detect_contradictions: group the active claims by (subject, predicate);
\* a group of more than one claim with more than one (object, negated) pair
\* contributes every member.
GroupKeys(claims) ==
    {<<claims[c].subject, claims[c].predicate>> : c \in ActiveIds(claims)}

GroupOf(claims, key) ==
    {c \in ActiveIds(claims) : <<claims[c].subject, claims[c].predicate>> = key}

detect_contradictions_objects_only(claims) ==
    SortedInts(UNION {
        IF /\ Cardinality(GroupOf(claims, key)) > 1
           /\ Cardinality({claims[c].object : c \in GroupOf(claims, key)}) > 1
        THEN GroupOf(claims, key) ELSE {} : key \in GroupKeys(claims)})

\* Groups by predicate alone
detect_contradictions_by_predicate(claims) ==
    SortedInts(UNION {
        IF Cardinality({<<claims[c].object, claims[c].negated>> :
                           c \in {d \in ActiveIds(claims) : claims[d].predicate = pr}}) > 1
        THEN {c \in ActiveIds(claims) : claims[c].predicate = pr} ELSE {}
        : pr \in {claims[c].predicate : c \in ActiveIds(claims)}})

detect_contradictions_rsm(claims) ==
    SortedInts(UNION {
        IF /\ Cardinality(GroupOf(claims, key)) > 1
           /\ Cardinality({<<claims[c].object, claims[c].negated>> :
                              c \in GroupOf(claims, key)}) > 1
        THEN GroupOf(claims, key) ELSE {} : key \in GroupKeys(claims)})

\* sorted(patterns) with patterns = [f"contradictions_detected:{n}"] or []
MetaPatterns(contradictions) ==
    IF Len(contradictions) > 0
    THEN <<[pattern |-> "contradictions_detected", count |-> Len(contradictions)]>>
    ELSE <<>>

compute_aggregates(r) ==
    [r EXCEPT !.behavioral_tendencies = BehavioralTendencies(r.claims),
              !.knowledge_gaps = KnowledgeGaps(r.claims),
              !.contradiction_events = detect_contradictions_rsm(r.claims),
              !.interaction_meta_patterns =
                  MetaPatterns(detect_contradictions_rsm(r.claims))]

-----------------------------------------------------------------------------
(* The recursive self-model: snapshot (rsm.py, snapshot) *)

\* The keys of _get_predicate_strengths(): the non-empty predicates of the
\* active claims.
ActivePredicates(claims) ==
    {claims[c].predicate : c \in {d \in ActiveIds(claims) : Truthy(claims[d].predicate)}}

\* sorted(strengths.items(), key = (-strength, predicate))
RECURSIVE SortTendencies(_, _)
SortTendencies(P, claims) ==
    IF P = {} THEN <<>>
    ELSE LET m == CHOOSE p \in P : \A q \in P :
                    \/ PredicateStrength(claims, p) > PredicateStrength(claims, q)
                    \/ /\ PredicateStrength(claims, p) = PredicateStrength(claims, q)
                       /\ StrRank(p) <= StrRank(q)
         IN  <<[predicate |-> m,
                strength  |-> PredicateStrength(claims, m),
                sources   |-> PredicateCount(claims, m)]>>
             \o SortTendencies(P \ {m}, claims)

TopN == 10

\* Every predicate, without the cut at ten
top_tendencies_uncut(claims) == SortTendencies(ActivePredicates(claims), claims)

top_tendencies(claims) ==
    LET all == SortTendencies(ActivePredicates(claims), claims)
    IN  SubSeq(all, 1, IF Len(all) < TopN THEN Len(all) ELSE TopN)

\* compute_concept_metrics(eventlog) of pmm/core/concept_metrics.py: a function
\* of the ledger's concept events.
compute_concept_metrics(l) ==
    Cardinality({i \in DOMAIN l : l[i].kind = "concept_define"})

snapshot(r, l) ==
    [behavioral_tendencies     |-> r.behavioral_tendencies,
     knowledge_gaps            |-> r.knowledge_gaps,
     interaction_meta_patterns |-> r.interaction_meta_patterns,
     reflections               |-> r.reflection_intents,
     concept_metrics           |-> compute_concept_metrics(l),
     active_claim_count        |-> Cardinality(ActiveIds(r.claims)),
     contradiction_events      |-> r.contradiction_events,
     top_tendencies            |-> top_tendencies(r.claims)]

-----------------------------------------------------------------------------
(* The recursive self-model: __init__, observe, rebuild *)

\* RecursiveSelfModel.__init__ and reset(): _last_snapshot None is <<>>, a
\* snapshot s is <<s>>; _claims is a function from claim ids to claims.
FreshRSM ==
    [last_processed_event_id   |-> NoneId,
     claims                    |-> <<>>,
     behavioral_tendencies     |-> <<>>,
     knowledge_gaps            |-> <<>>,
     interaction_meta_patterns |-> <<>>,
     reflection_intents        |-> <<>>,
     contradiction_events      |-> <<>>,
     last_snapshot             |-> <<>>]

\* EventLog.append gives the event the next id.
MkEvent(l, kind, content, source) ==
    [id |-> Len(l) + 1, kind |-> kind, content |-> content,
     meta |-> [source |-> source]]

\* json.dumps(snapshot, sort_keys=True, separators=(",", ":"))
JsonDumpsSnapshot(snap) ==
    [tag |-> "json", claim |-> NoClaim, intent |-> None, snapshot |-> <<snap>>]

\* observe() returns before touching anything: rsm_update, or at or below
\* the watermark.
IgnoredNoKindCheck(r, ev) ==
    r.last_processed_event_id # NoneId /\ ev.id <= r.last_processed_event_id

IgnoredNoWatermark(r, ev) == ev.kind = "rsm_update"

Ignored(r, ev) ==
    \/ ev.kind = "rsm_update"
    \/ /\ r.last_processed_event_id # NoneId
       /\ ev.id <= r.last_processed_event_id

\* _process_claim_event that keeps the record an id already has
process_claim_event_keep_first(r, ev) ==
    IF /\ ev.content.tag = "obj" /\ ev.content.claim.claim_id # 0
       /\ ev.content.claim.claim_id \notin DOMAIN r.claims
    THEN [r EXCEPT !.claims =
            [c \in DOMAIN r.claims \cup {ev.content.claim.claim_id} |->
                IF c = ev.content.claim.claim_id THEN ev.content.claim
                ELSE r.claims[c]]]
    ELSE r

process_claim_event(r, ev) ==
    IF ev.content.tag = "obj" /\ ev.content.claim.claim_id # 0
    THEN [r EXCEPT !.claims =
            [c \in DOMAIN r.claims \cup {ev.content.claim.claim_id} |->
                IF c = ev.content.claim.claim_id THEN ev.content.claim
                ELSE r.claims[c]]]
    ELSE r

\* The reflection branch of observe(): a string intent is appended.
process_reflection(r, ev) ==
    IF ev.content.tag = "obj" /\ ev.content.intent # None
    THEN [r EXCEPT !.reflection_intents = Append(@, ev.content.intent)]
    ELSE r

\* observe() of an event that is not ignored, up to and including the
\* recomputation of the aggregates (lines 72-97).
ObserveState(r, ev) ==
    LET r1 == [r EXCEPT !.last_processed_event_id = ev.id]
        r2 == IF ev.kind = "claim_register" THEN process_claim_event(r1, ev)
              ELSE IF ev.kind = "reflection" THEN process_reflection(r1, ev)
              ELSE r1
    IN  compute_aggregates(r2)

\* _maybe_emit_rsm_update decides to append.
EmitsAlways(r, l) == TRUE

Emits(r, l) == r.last_snapshot # <<snapshot(r, l)>>

\* An emission under another kind
RsmUpdateEventAsManifest(r, l) ==
    MkEvent(l, "checkpoint_manifest", JsonDumpsSnapshot(snapshot(r, l)), "rsm")

RsmUpdateEvent(r, l) ==
    MkEvent(l, "rsm_update", JsonDumpsSnapshot(snapshot(r, l)), "rsm")

\* One whole observe() call on the pair p = [rsm, log], the append's
\* notification (if any) being an ignored rsm_update.
observe(p, ev) ==
    IF Ignored(p.rsm, ev) THEN p
    ELSE LET r == ObserveState(p.rsm, ev)
         IN  IF Emits(r, p.log)
             THEN [rsm |-> [r EXCEPT !.last_snapshot = <<snapshot(r, p.log)>>],
                   log |-> Append(p.log, RsmUpdateEvent(r, p.log))]
             ELSE [rsm |-> r, log |-> p.log]

RECURSIVE ObserveAll(_, _)
ObserveAll(p, events) ==
    IF events = <<>> THEN p
    ELSE ObserveAll(observe(p, Head(events)), Tail(events))

\* rebuild(events): reset, observe each event, recompute the aggregates.
rsm_rebuild(l, events) ==
    LET p == ObserveAll([rsm |-> FreshRSM, log |-> l], events)
    IN  [rsm |-> compute_aggregates(p.rsm), log |-> p.log]

-----------------------------------------------------------------------------
(* SpecRSM: a self-model attached to an event log *)

\* Bound: the number of events external producers append.
MaxExt == 3

\* The longest log SpecRSM builds: each external event and the rsm_update it
\* causes, and room for a runaway emission to show.
LogCap == 2 * MaxExt + 2

ClaimStab  == MkClaim(1, "BELIEF", "self", "prioritizes", "stability", FALSE, 100, "active")
ClaimNov   == MkClaim(2, "BELIEF", "self", "prioritizes", "novelty", FALSE, 100, "active")
ClaimNeg   == MkClaim(3, "VALUE", "self", "prioritizes", "stability", TRUE, 50, "active")
ClaimAgain == MkClaim(1, "TENDENCY", "self", "knowledge_gap", "physics", FALSE, 50, "active")
ClaimOff   == MkClaim(4, "BELIEF", "self", "prioritizes", "novelty", FALSE, 100, "retracted")
ClaimNoId  == MkClaim(0, "BELIEF", "self", "prioritizes", "novelty", FALSE, 100, "active")

\* What external producers append, <<kind, content>>, in families: claims
\* that contradict one another; claims that are replaced or inactive; and
\* contents that are dropped.
Pools ==
    {{<<"claim_register", ClaimContent(ClaimStab)>>,
      <<"claim_register", ClaimContent(ClaimNov)>>,
      <<"claim_register", ClaimContent(ClaimNeg)>>,
      <<"reflection", ReflectionContent("plan")>>},
     {<<"user_message", TextContent>>,
      <<"claim_register", ClaimContent(ClaimStab)>>,
      <<"claim_register", ClaimContent(ClaimAgain)>>,
      <<"claim_register", ClaimContent(ClaimOff)>>},
     {<<"claim_register", ClaimContent(ClaimNov)>>,
      <<"claim_register", MalformedContent>>,
      <<"claim_register", ClaimContent(ClaimNoId)>>,
      <<"reflection", NonObjectContent>>}}

Frame(i, pc, snap) == [ev |-> i, pc |-> pc, snap |-> snap]

Pop(st) == SubSeq(st, 1, Len(st) - 1)

\* The other components, idle.
MigIdle == [pc |-> "idle", queue |-> <<>>, count |-> 0, read |-> 0,
            need |-> 0, prev |-> "none"]
MigNoCall == [last |-> "none", prev |-> "none", ret |-> 0, read |-> 0, need |-> 0]
EmptyGraph == [nodes |-> <<>>, kind |-> <<>>, edges |-> {}]

MigAtRest == elog = <<>> /\ mig = MigIdle /\ mhist = MigNoCall
NotFed    == [base |-> "fresh", ids |-> <<>>]
WriterIdle == [pc |-> "idle", n |-> 0]
ReaderIdle ==
    [pc |-> "idle", query |-> "none", base |-> <<>>, idx |-> 0, included |-> {},
     result |-> <<>>, seen |-> {}]
ThreadsAtRest == writer = WriterIdle /\ reader = ReaderIdle
ExAtRest == xin = <<>> /\ xout = <<>>
MGAtRest  == mlog = <<>> /\ graph = EmptyGraph /\ mfed = NotFed /\ ThreadsAtRest
RSMAtRest ==
    /\ log = <<>> /\ rsm = FreshRSM /\ stack = <<>> /\ mode = "manual"
    /\ pool = {} /\ nExt = 0 /\ burst = 0 /\ dropped = FALSE

InitRSM ==
    /\ ExAtRest
    /\ log = <<>>
    /\ rsm = FreshRSM
    /\ stack = <<>>
    /\ mode \in {"manual", "listen"}
    /\ pool \in Pools
    /\ nExt = 0
    /\ burst = 0
    /\ dropped = FALSE
    /\ MigAtRest
    /\ MGAtRest

\* The body of one observe() call on event i of log l, from state r, with
\* the calls st in progress around it, up to its append.  In listen mode the
\* append notifies the self-model before append() returns, that is before
\* _last_snapshot is assigned: the call waits in st ("emitted") under the
\* notification's call.
Call(l, r, st, i) ==
    IF Ignored(r, l[i])
    THEN [log |-> l, rsm |-> r, stack |-> st, emitted |-> 0]
    ELSE LET r1 == ObserveState(r, l[i])
         IN  IF Emits(r1, l)
             THEN [log |-> Append(l, RsmUpdateEvent(r1, l)),
                   rsm |-> r1,
                   stack |-> Append(st, Frame(i, "emitted", <<snapshot(r1, l)>>))
                             \o (IF mode = "listen"
                                 THEN <<Frame(Len(l) + 1, "call", <<>>)>>
                                 ELSE <<>>),
                   emitted |-> 1]
             ELSE [log |-> l, rsm |-> r1, stack |-> st, emitted |-> 0]

\* An external producer appends an event; in listen mode the log notifies
\* the self-model at once.
ExtAppend(e) ==
    /\ e \in pool
    /\ stack = <<>>
    /\ nExt < MaxExt
    /\ nExt' = nExt + 1
    /\ LET l == Append(log, MkEvent(log, e[1], e[2], "external"))
           c == Call(l, rsm, <<>>, Len(l))
       IN  IF mode = "listen"
           THEN log' = c.log /\ rsm' = c.rsm /\ stack' = c.stack
                /\ burst' = c.emitted
           ELSE log' = l /\ burst' = 0 /\ UNCHANGED <<rsm, stack>>
    /\ dropped' = FALSE
    /\ UNCHANGED <<mode, pool, migVars, mgVars, exVars>>

\* rsm.observe(log.get(i)) / Mirror.sync(event), called by hand.
Observe(i) ==
    /\ stack = <<>>
    /\ i \in 1..Len(log)
    /\ dropped' = (log[i].kind # "rsm_update" /\ Ignored(rsm, log[i]))
    /\ LET c == Call(log, rsm, <<>>, i)
       IN  /\ Len(c.log) <= LogCap
           /\ log' = c.log /\ rsm' = c.rsm /\ stack' = c.stack
           /\ burst' = burst + c.emitted
    /\ UNCHANGED <<mode, pool, nExt, migVars, mgVars, exVars>>

\* The observe() call of a notification.
Notify ==
    /\ stack # <<>>
    /\ Last(stack).pc = "call"
    /\ LET c == Call(log, rsm, Pop(stack), Last(stack).ev)
       IN  /\ Len(c.log) <= LogCap
           /\ log' = c.log /\ rsm' = c.rsm /\ stack' = c.stack
           /\ burst' = burst + c.emitted
    /\ dropped' = FALSE
    /\ UNCHANGED <<mode, pool, nExt, migVars, mgVars, exVars>>

\* append() has returned: _last_snapshot = current_snapshot.
Finish ==
    /\ stack # <<>>
    /\ Last(stack).pc = "emitted"
    /\ rsm' = [rsm EXCEPT !.last_snapshot = Last(stack).snap]
    /\ stack' = Pop(stack)
    /\ dropped' = FALSE
    /\ UNCHANGED <<log, mode, pool, nExt, burst, migVars, mgVars, exVars>>

NextRSM ==
    \/ \E e \in UNION Pools : ExtAppend(e)
    \/ \E i \in 1..LogCap : Observe(i)
    \/ Notify
    \/ Finish

SpecRSM == InitRSM /\ [][NextRSM]_vars

-----------------------------------------------------------------------------
(* Properties of SpecRSM *)

\* The snapshot the self-model last emitted into l: <<s>>, or <<>> if none.
LastEmitted(l) ==
    LET E == {i \in DOMAIN l : l[i].kind = "rsm_update" /\ l[i].meta.source = "rsm"}
    IN  IF E = {} THEN <<>>
        ELSE l[CHOOSE i \in E : \A j \in E : j <= i].content.snapshot

\* The rsm_update events a step appends.
NewUpdates ==
    SelectSeq(SubSeq(log', Len(log) + 1, Len(log')),
              LAMBDA ev : ev.kind = "rsm_update")

\* The step is one observe() call: by hand, as a notification, or as the
\* notification of an external append.
IsObserveCall ==
    \/ stack = <<>> /\ nExt' = nExt
    \/ stack # <<>> /\ Last(stack).pc = "call"
    \/ stack = <<>> /\ nExt' # nExt /\ mode = "listen"

\* C1: with the self-model listening to the log, so that it has observed
\* every event of the log one at a time in ascending id order, its snapshot
\* equals the snapshot of a self-model rebuilt from the same events (the
\* concept metrics taken on the same ledger).
C1_ReplayEquivalence ==
    (mode = "listen" /\ stack = <<>>) =>
        snapshot(rsm, log) = snapshot(rsm_rebuild(log, log).rsm, log)

\* C7: an observe() call that processes its event appends exactly one
\* rsm_update, whose content is the canonical JSON of the snapshot after the
\* call and whose meta.source is "rsm", when that snapshot differs from the
\* one last emitted, and appends none otherwise; a call that ignores its
\* event appends none; and between calls the snapshot is the one last
\* emitted, so that observing a user_message after a claim was observed and
\* emitted appends nothing.
C7_DeltaTriggeredEmission ==
    [][/\ (stack' = <<>> /\ LastEmitted(log') # <<>>)
            => LastEmitted(log') = <<snapshot(rsm', log')>>
       /\ IsObserveCall =>
            LET processed == rsm'.last_processed_event_id # rsm.last_processed_event_id
                after     == snapshot(rsm', log')
            IN  /\ Len(NewUpdates) <= 1
                /\ Len(NewUpdates) = 1 <=>
                       (processed /\ LastEmitted(log) # <<after>>)
                /\ Len(NewUpdates) = 1 =>
                       /\ Last(log') = NewUpdates[1]
                       /\ NewUpdates[1].content.tag = "json"
                       /\ NewUpdates[1].content.snapshot = <<after>>
                       /\ NewUpdates[1].meta.source = "rsm"]_vars

\* C7 witness: a claim was observed and its rsm_update emitted, then a
\* user_message was observed (the watermark is its id) and nothing appended.
C7_Witness ==
    /\ stack = <<>>
    /\ Len(log) = 3
    /\ log[1].kind = "claim_register"
    /\ log[2].kind = "rsm_update" /\ log[2].meta.source = "rsm"
    /\ log[3].kind = "user_message"
    /\ rsm.last_processed_event_id = 3

\* C8: observe() of an event whose id is at or below the watermark changes
\* neither the self-model nor the log, and the watermark never decreases.
C8_WatermarkIdempotence ==
    [][/\ \A i \in 1..Len(log) :
            (/\ rsm.last_processed_event_id # NoneId
             /\ log[i].id <= rsm.last_processed_event_id
             /\ Observe(i))
            => (rsm' = rsm /\ log' = log)
       /\ rsm'.last_processed_event_id >= rsm.last_processed_event_id]_vars

\* C8 witness: every event of a log of two or more is at or below the
\* watermark, and the last step was an observe() of one of them.
C8_Witness ==
    /\ dropped
    /\ Len(log) >= 2
    /\ rsm.last_processed_event_id = Len(log)
    /\ rsm.reflection_intents # <<>>

\* C9: observe() of an rsm_update event changes no state and appends
\* nothing, whether called by hand or as a notification; and with the
\* self-model listening, one external append causes at most one rsm_update
\* and no notification is nested deeper than the one of that rsm_update.
C9_NoRecursion ==
    [][/\ \A i \in 1..Len(log) :
            (log[i].kind = "rsm_update" /\ Observe(i))
            => (rsm' = rsm /\ log' = log)
       /\ (Notify /\ log[Last(stack).ev].kind = "rsm_update")
            => (rsm' = rsm /\ log' = log)
       /\ mode' = "listen" => (burst' <= 1 /\ Len(stack') <= 2)]_vars

\* C9 witness: listening, an external append made the self-model emit one
\* rsm_update, the notification of that rsm_update has been handled and the
\* emitting call has returned.
C9_Witness ==
    /\ mode = "listen"
    /\ stack = <<>>
    /\ burst = 1
    /\ Len(log) >= 4
    /\ Last(log).kind = "rsm_update"
    /\ rsm.last_snapshot = <<snapshot(rsm, log)>>

\* Two active claims of one (subject, predicate) group.
SameGroup(cl, c, d) ==
    cl[c].subject = cl[d].subject /\ cl[c].predicate = cl[d].predicate

\* C10: contradiction_events is the ascending duplicate-free list of the ids
\* of the active claims whose (subject, predicate) group holds two active
\* claims of different (object, negated); interaction_meta_patterns is the
\* single entry contradictions_detected:N when N > 0 and empty when N = 0;
\* two active claims self/prioritizes with objects "stability" and "novelty"
\* give N = 2.
C10_Contradictions ==
    LET cl == rsm.claims
        A  == ActiveIds(cl)
        ce == rsm.contradiction_events
        N  == Len(ce)
    IN  /\ Range(ce) =
              {c \in A : \E d \in A, e \in A :
                  /\ SameGroup(cl, c, d) /\ SameGroup(cl, c, e)
                  /\ <<cl[d].object, cl[d].negated>> # <<cl[e].object, cl[e].negated>>}
        /\ \A i \in 1..N, j \in 1..N : i < j => ce[i] < ce[j]
        /\ rsm.interaction_meta_patterns =
              (IF N > 0
               THEN <<[pattern |-> "contradictions_detected", count |-> N]>>
               ELSE <<>>)
        /\ (A = {1, 2} /\ cl[1] = ClaimStab /\ cl[2] = ClaimNov) => N = 2

\* C10 witness: the self-model holds the two claims of the example and a
\* third that differs from the first in negation only.
C10_Witness ==
    /\ DOMAIN rsm.claims = {1, 2, 3}
    /\ rsm.claims[1] = ClaimStab /\ rsm.claims[2] = ClaimNov
    /\ rsm.claims[3] = ClaimNeg
    /\ rsm.contradiction_events = <<1, 2, 3>>

-----------------------------------------------------------------------------
(* The claim extractor (claim_extractor.py), as far as the migrator uses it *)

\* The trimmed non-empty lines of the messages of the model, and the
\* CLAIM_PREFIXES entry each starts with (None: no prefix).
LinePrefix(line) ==
    CASE line = "BELIEF: a" -> "BELIEF"
      [] line = "VALUE: b"  -> "VALUE"
      [] OTHER              -> None

\* A claim id taken from the line alone
generate_claim_id_of_text(source_event_id, raw_text) == <<0, raw_text>>

\* blake3(f"{event_id}:{raw_text}")[:16], injective on the inputs of the model
generate_claim_id(source_event_id, raw_text) == <<source_event_id, raw_text>>

\* _parse_claim_line: <<>> for None, <<claim>> for a claim.
parse_claim_line(line, source_event_id) ==
    IF LinePrefix(line) = None THEN <<>>
    ELSE <<[claim_id        |-> generate_claim_id(source_event_id, line),
            source_event_id |-> source_event_id,
            type            |-> LinePrefix(line),
            raw_text        |-> line]>>

RECURSIVE ParseLines(_, _)
ParseLines(lines, source_event_id) ==
    IF lines = <<>> THEN <<>>
    ELSE parse_claim_line(Head(lines), source_event_id)
         \o ParseLines(Tail(lines), source_event_id)

extract_claims_from_event(ev) ==
    IF ev.kind # "assistant_message" THEN <<>>
    ELSE ParseLines(ev.content.lines, ev.id)

-----------------------------------------------------------------------------
(* The migrator (claim_migration.py) *)

NoMigClaim == [claim_id |-> <<0, "">>, source_event_id |-> 0, type |-> None,
               raw_text |-> ""]

\* Contents of the ledger's events: the lines of a message; or what
\* json.loads makes of a claim_register content ("obj": a claim object,
\* "malformed": it raises, "nonobj": not an object).
LinesContent(lines) == [tag |-> "lines", lines |-> lines, claim |-> NoMigClaim]
ClaimRegContent(c)  == [tag |-> "obj", lines |-> <<>>, claim |-> c]
MalformedRegContent == [tag |-> "malformed", lines |-> <<>>, claim |-> NoMigClaim]

\* EventLog.append on the ledger l
MigEvent(l, kind, content, source, version) ==
    [id |-> Len(l) + 1, kind |-> kind, content |-> content,
     meta |-> [source |-> source, migration_version |-> version]]

needs_claim_migration(events) ==
    /\ \E i \in DOMAIN events : events[i].kind = "assistant_message"
    /\ ~ \E i \in DOMAIN events : events[i].kind = "claim_register"

\* existing_claim_ids after the first loop
ExistingClaimIds(events) ==
    {events[i].content.claim.claim_id : i \in
        {j \in DOMAIN events : /\ events[j].kind = "claim_register"
                               /\ events[j].content.tag = "obj"}}

\* The claims of the assistant messages, the latest message first
RECURSIVE AllExtractedLatestFirst(_)
AllExtractedLatestFirst(events) ==
    IF events = <<>> THEN <<>>
    ELSE AllExtractedLatestFirst(Tail(events)) \o extract_claims_from_event(Head(events))

\* The claims the extractor gives for the assistant messages, in ledger order.
RECURSIVE AllExtracted(_)
AllExtracted(events) ==
    IF events = <<>> THEN <<>>
    ELSE extract_claims_from_event(Head(events)) \o AllExtracted(Tail(events))

RECURSIVE SkipSeen(_, _)
SkipSeen(claims, seen) ==
    IF claims = <<>> THEN <<>>
    ELSE IF Head(claims).claim_id \in seen THEN SkipSeen(Tail(claims), seen)
    ELSE <<Head(claims)>> \o SkipSeen(Tail(claims), seen \cup {Head(claims).claim_id})

SkipExistingOnly(claims, existing) ==
    SelectSeq(claims, LAMBDA c : c.claim_id \notin existing)

\* The second loop: a claim is kept unless its id is in existing_claim_ids,
\* which every kept claim's id joins.
SkipExisting(claims, existing) == SkipSeen(claims, existing)

ClaimsToEmitUnchecked(events) == AllExtracted(events)

\* claims_to_emit, empty when the call returns at the gate
ClaimsToEmit(events) ==
    IF ~ needs_claim_migration(events) THEN <<>>
    ELSE SkipExisting(AllExtracted(events), ExistingClaimIds(events))

-----------------------------------------------------------------------------
(* SpecMig: migrate calls and external appends on one ledger *)

\* Bound: the number of events external producers append.
MaxAppends == 3

\* No ledger of SpecMig is longer: each external event and two claims for it.
LedgerCap == 3 * MaxAppends

\* The assistant messages external producers append, as lists of lines.
Bodies ==
    {<<"BELIEF: a">>, <<"BELIEF: a", "VALUE: b">>, <<"BELIEF: a", "BELIEF: a">>,
     <<"hello">>}

NumExternal(l) ==
    Cardinality({i \in DOMAIN l : l[i].meta.source # "claim_migration"})

\* The ids the extractor gives for the ledger, and the ids that occur in the
\* content of a claim_register event.
ExtractedIds(l)  == {c.claim_id : c \in Range(AllExtracted(l))}
RegisteredIds(l) == ExistingClaimIds(l)

Reset(what) == [MigNoCall EXCEPT !.last = what]

ExternalAppend(kind, content, source) ==
    /\ mig.pc = "idle"
    /\ NumExternal(elog) < MaxAppends
    /\ elog' = Append(elog, MigEvent(elog, kind, content, source, None))
    /\ mhist' = Reset("append")
    /\ UNCHANGED <<mig, rsmVars, mgVars, exVars>>

\* An assistant message arrives.
AppendMessage(body) ==
    ExternalAppend("assistant_message", LinesContent(body), "external")

\* Another producer registers a claim of a message of the ledger.
AppendRegister(c) ==
    /\ c \in Range(AllExtracted(elog))
    /\ ExternalAppend("claim_register", ClaimRegContent(c), "external")

\* A claim_register whose content is not JSON arrives.
AppendMalformed ==
    ExternalAppend("claim_register", MalformedRegContent, "external")

\* A claim_register of the ledger is appended again verbatim.
Reappend(i) ==
    /\ i \in DOMAIN elog
    /\ elog[i].kind = "claim_register"
    /\ ExternalAppend("claim_register", elog[i].content, "manual_corruption")

\* migrate_claims_from_history up to the emit loop; it returns 0 here when
\* there is nothing to emit.
MigrateCall ==
    /\ mig.pc = "idle"
    /\ LET q    == ClaimsToEmit(elog)
           need == Cardinality(ExtractedIds(elog) \ RegisteredIds(elog))
       IN  /\ Len(elog) + Len(q) <= LedgerCap
           /\ IF q = <<>>
              THEN /\ mig' = MigIdle
                   /\ mhist' = [last |-> "return", prev |-> mhist.last, ret |-> 0,
                                read |-> Len(elog), need |-> need]
              ELSE /\ mig' = [pc |-> "emitting", queue |-> q, count |-> 0,
                              read |-> Len(elog), need |-> need, prev |-> mhist.last]
                   /\ mhist' = Reset("call")
    /\ UNCHANGED <<elog, rsmVars, mgVars, exVars>>

\* One round of the emit loop; after the last one the call returns
\* emitted_count.
MigrateEmit ==
    /\ mig.pc = "emitting"
    /\ elog' = Append(elog, MigEvent(elog, "claim_register",
                                     ClaimRegContent(Head(mig.queue)),
                                     "claim_migration", "1"))
    /\ IF Tail(mig.queue) = <<>>
       THEN /\ mig' = MigIdle
            /\ mhist' = [last |-> "return", prev |-> mig.prev, ret |-> mig.count + 1,
                         read |-> mig.read, need |-> mig.need]
       ELSE /\ mig' = [mig EXCEPT !.queue = Tail(@), !.count = @ + 1]
            /\ UNCHANGED mhist
    /\ UNCHANGED <<rsmVars, mgVars, exVars>>

\* The run is aborted after appending some of its events and before
\* appending the rest.
MigrateCrash ==
    /\ mig.pc = "emitting"
    /\ mig.count >= 1
    /\ mig' = MigIdle
    /\ mhist' = Reset("crash")
    /\ UNCHANGED <<elog, rsmVars, mgVars, exVars>>

InitMig ==
    /\ ExAtRest
    /\ elog = <<>>
    /\ mig = MigIdle
    /\ mhist = MigNoCall
    /\ RSMAtRest
    /\ MGAtRest

NextMig ==
    \/ \E body \in Bodies : AppendMessage(body)
    \/ \E c \in Range(AllExtracted(elog)) : AppendRegister(c)
    \/ AppendMalformed
    \/ \E i \in 1..LedgerCap : Reappend(i)
    \/ MigrateCall
    \/ MigrateEmit
    \/ MigrateCrash

SpecMig == InitMig /\ [][NextMig]_vars

-----------------------------------------------------------------------------
(* Properties of SpecMig *)

\* The claim_register events the migrator appended for the id cid.
MigratorEmitted(l, cid) ==
    {i \in DOMAIN l : /\ l[i].kind = "claim_register"
                      /\ l[i].meta.source = "claim_migration"
                      /\ l[i].content.claim.claim_id = cid}

\* C3: when a migrate call returns right after another migrate call
\* returned, with nothing appended in between, it returns 0 and has appended
\* nothing.
C3_MigrationIdempotent ==
    (mig.pc = "idle" /\ mhist.last = "return" /\ mhist.prev = "return")
        => (mhist.ret = 0 /\ Len(elog) = mhist.read)

\* C3 witness: a migrate call emitted claim_register events (the ledger ends
\* with them), and the call after it has returned.
C3_Witness ==
    /\ mig.pc = "idle"
    /\ mhist.last = "return" /\ mhist.prev = "return"
    /\ elog # <<>>
    /\ Last(elog).meta.source = "claim_migration"
    /\ Cardinality(RegisteredIds(elog)) = 2

\* C4: when a migrate call has returned, every claim id the extractor gives
\* for an assistant message of the ledger is in the content of a
\* claim_register event, and the value returned is the number of extracted
\* ids that had no claim_register event when the call read the ledger.
C4_MigrationComplete ==
    (mig.pc = "idle" /\ mhist.last = "return")
        => /\ ExtractedIds(elog) \subseteq RegisteredIds(elog)
           /\ mhist.ret = mhist.need

\* C5: when the migrate call that follows an aborted run has returned, it
\* has returned the number of claim ids that were missing, and every
\* extracted claim id has exactly one claim_register event emitted by the
\* migrator.
C5_ConvergesAfterCrash ==
    (mig.pc = "idle" /\ mhist.last = "return" /\ mhist.prev = "crash")
        => /\ mhist.ret = mhist.need
           /\ \A cid \in ExtractedIds(elog) :
                  Cardinality(MigratorEmitted(elog, cid)) = 1

\* C6: no step removes or rewrites an event of the ledger; a claim_register
\* the migrator appends has a claim id that is in no claim_register event of
\* the ledger before it (those of the same run included); and a migrate call
\* on a ledger where no extracted id lacks a claim_register, such as a
\* migrated ledger with a duplicate injected, returns 0 and appends nothing.
C6_NoDoubleEmitNoDelete ==
    [][/\ IsPrefix(elog, elog')
       /\ \A i \in (DOMAIN elog') \ (DOMAIN elog) :
             elog'[i].meta.source = "claim_migration"
             => /\ elog'[i].kind = "claim_register"
                /\ elog'[i].content.claim.claim_id
                     \notin RegisteredIds(SubSeq(elog', 1, i - 1))
       /\ (mig'.pc = "idle" /\ mhist'.last = "return" /\ mhist'.need = 0)
             => (mhist'.ret = 0 /\ Len(elog') = mhist'.read)]_vars

\* C6 witness: the migrator emitted a claim_register, a duplicate of it was
\* injected, and the migrate call that read the whole ledger returned 0.
C6_Witness ==
    /\ mig.pc = "idle"
    /\ mhist.last = "return" /\ mhist.ret = 0 /\ mhist.read = Len(elog)
    /\ ExtractedIds(elog) \subseteq RegisteredIds(elog)
    /\ \E i \in DOMAIN elog, j \in DOMAIN elog :
          /\ i < j
          /\ elog[i].meta.source = "claim_migration"
          /\ elog[j].meta.source = "manual_corruption"
          /\ elog[j].content = elog[i].content

\* C12: every claim_register event appended by the migrator carries meta
\* with exactly the keys source, migration_version and force, source being
\* "claim_migration" and migration_version "1".
C12_MetaCarriesForce ==
    \A i \in DOMAIN elog :
        (elog[i].kind = "claim_register" /\ elog[i].meta.source = "claim_migration")
            => /\ DOMAIN elog[i].meta = {"source", "migration_version", "force"}
               /\ elog[i].meta.migration_version = "1"

-----------------------------------------------------------------------------
(* The meme graph (meme_graph.py) *)

TRACKED_KINDS ==
    {"user_message", "assistant_message", "commitment_open", "commitment_close",
     "reflection", "summary_update"}

\* A ledger event as the graph reads it: meta.text, meta.cid (None: absent),
\* meta.about_event (0: absent), and the commitment texts that
\* extract_commitments of pmm/core/semantic_extractor.py finds in its content.
GraphEvent(id, kind, text, cid, about, commits) ==
    [id |-> id, kind |-> kind, text |-> text, cid |-> cid, about |-> about,
     commits |-> commits]

has_node(g, n) == n \in Range(g.nodes)

\* DiGraph.add_node(n, kind=kind): a new node joins at the end; an old one
\* gets the attribute.
add_node(g, n, kind) ==
    [nodes |-> IF has_node(g, n) THEN g.nodes ELSE Append(g.nodes, n),
     kind  |-> [m \in DOMAIN g.kind \cup {n} |-> IF m = n THEN kind ELSE g.kind[m]],
     edges |-> g.edges]

\* DiGraph.add_edge(u, v, label=label) between two nodes of the graph: one
\* edge per ordered pair.
add_edge(g, u, v, label) ==
    [g EXCEPT !.edges = {e \in @ : ~(e[1] = u /\ e[2] = v)} \cup {<<u, v, label>>}]

\* The node of the kind that joined the graph last, 0 for None
find_last_joined(g, kind) ==
    LET I == {i \in DOMAIN g.nodes : g.kind[g.nodes[i]] = kind}
    IN  IF I = {} THEN 0 ELSE g.nodes[CHOOSE i \in I : \A j \in I : j <= i]

\* _find_last: the greatest node of the kind, 0 for None.
find_last(g, kind) ==
    LET C == {n \in Range(g.nodes) : g.kind[n] = kind}
    IN  IF C = {} THEN 0 ELSE CHOOSE n \in C : \A m \in C : m <= n

\* The first node, in the graph's node order, among the nodes S; 0 for None.
FirstNode(g, S) ==
    LET I == {i \in DOMAIN g.nodes : g.nodes[i] \in S}
    IN  IF I = {} THEN 0 ELSE g.nodes[CHOOSE i \in I : \A j \in I : i <= j]

find_assistant_with_commit_text(g, l, text) ==
    FirstNode(g, {n \in Range(g.nodes) :
                    g.kind[n] = "assistant_message" /\ text \in l[n].commits})

\* The first commitment_open node whatever its cid
find_commitment_open_of_any_cid(g, l, cid) ==
    FirstNode(g, {n \in Range(g.nodes) : g.kind[n] = "commitment_open"})

find_commitment_open_by_cid(g, l, cid) ==
    FirstNode(g, {n \in Range(g.nodes) :
                    g.kind[n] = "commitment_open" /\ l[n].cid = cid})

\* _add_event on graph g over the ledger l
AddEventUnguarded(g, l, ev) ==
    LET g1 == add_node(g, ev.id, ev.kind)
    IN  CASE ev.kind = "assistant_message" ->
                LET last_user == find_last(g1, "user_message")
                IN  IF last_user # 0 THEN add_edge(g1, ev.id, last_user, "replies_to")
                    ELSE g1
          [] ev.kind = "commitment_open" ->
                IF Truthy(ev.text)
                THEN LET a == find_assistant_with_commit_text(g1, l, ev.text)
                     IN  IF a # 0 THEN add_edge(g1, ev.id, a, "commits_to") ELSE g1
                ELSE g1
          [] ev.kind = "commitment_close" ->
                IF Truthy(ev.cid)
                THEN LET o == find_commitment_open_by_cid(g1, l, ev.cid)
                     IN  IF o # 0 THEN add_edge(g1, ev.id, o, "closes") ELSE g1
                ELSE g1
          [] ev.kind = "reflection" ->
                IF ev.about # 0 /\ has_node(g1, ev.about)
                THEN add_edge(g1, ev.id, ev.about, "reflects_on")
                ELSE g1
          [] OTHER -> g1

\* add_event without the test for a node of the same id
add_event_again(g, l, ev) ==
    IF ev.kind \notin TRACKED_KINDS THEN g
    ELSE AddEventUnguarded(g, l, ev)

add_event(g, l, ev) ==
    IF has_node(g, ev.id) \/ ev.kind \notin TRACKED_KINDS THEN g
    ELSE AddEventUnguarded(g, l, ev)

RECURSIVE AddAllUnguarded(_, _, _)
AddAllUnguarded(g, l, events) ==
    IF events = <<>> THEN g
    ELSE AddAllUnguarded(AddEventUnguarded(g, l, Head(events)), l, Tail(events))

\* rebuild(events): clear, then _add_event for each event in input order
mg_rebuild(l, events) == AddAllUnguarded(EmptyGraph, l, events)

\* str.strip() on the cid strings that are asked for.
Strip(s) ==
    CASE s = " c1 " -> "c1"
      [] s = " "    -> ""
      [] OTHER      -> s

\* thread_for_cid with the open node listed first
thread_for_cid_open_first(g, l, cid) ==
    LET c == Strip(cid)
        open_node == find_commitment_open_by_cid(g, l, c)
    IN  IF c = "" \/ open_node = 0 THEN <<>>
        ELSE LET A == {e[2] : e \in {d \in g.edges : d[1] = open_node /\ d[3] = "commits_to"}}
                 C == {e[1] : e \in {d \in g.edges : d[2] = open_node /\ d[3] = "closes"}}
                 R == {e[1] : e \in {d \in g.edges : d[2] \in A /\ d[3] = "reflects_on"}}
             IN  <<open_node>> \o SortedInts(A) \o SortedInts(C) \o SortedInts(R)

\* thread_for_cid(cid) on graph g over the ledger l
thread_for_cid(g, l, cid) ==
    LET c == Strip(cid)
        open_node == find_commitment_open_by_cid(g, l, c)
    IN  IF c = "" \/ open_node = 0 THEN <<>>
        ELSE LET assistant_nodes ==
                     SortedInts({e[2] : e \in {d \in g.edges :
                                    d[1] = open_node /\ d[3] = "commits_to"}})
                 close_nodes ==
                     SortedInts({e[1] : e \in {d \in g.edges :
                                    d[2] = open_node /\ d[3] = "closes"}})
                 reflection_nodes ==
                     SortedInts({e[1] : e \in {d \in g.edges :
                                    /\ d[2] \in Range(assistant_nodes)
                                    /\ d[3] = "reflects_on"}})
             IN  assistant_nodes \o <<open_node>> \o close_nodes \o reflection_nodes

\* neighbors that lists the successors and then the predecessors
neighbors_listed(g, event_id, direction, kind) ==
    IF ~ has_node(g, event_id) THEN <<>>
    ELSE LET succ == {e[2] : e \in {d \in g.edges : d[1] = event_id}}
             pred == {e[1] : e \in {d \in g.edges : d[2] = event_id}}
             Keep(S) == IF kind # None THEN {n \in S : g.kind[n] = kind} ELSE S
         IN  (IF direction \in {"out", "both"} THEN SortedInts(Keep(succ)) ELSE <<>>)
             \o (IF direction \in {"in", "both"} THEN SortedInts(Keep(pred)) ELSE <<>>)

\* neighbors(event_id, direction=..., kind=...); kind None: no filter
neighbors(g, event_id, direction, kind) ==
    IF ~ has_node(g, event_id) THEN <<>>
    ELSE LET succ  == {e[2] : e \in {d \in g.edges : d[1] = event_id}}
             pred  == {e[1] : e \in {d \in g.edges : d[2] = event_id}}
             neigh == (IF direction \in {"out", "both"} THEN succ ELSE {})
                      \cup (IF direction \in {"in", "both"} THEN pred ELSE {})
         IN  SortedInts(IF kind # None THEN {n \in neigh : g.kind[n] = kind}
                        ELSE neigh)

\* recent_frontier(limit=..., kinds=...); kinds <<>>: None, <<S>>: the set S
recent_frontier(g, limit, kinds) ==
    LET lim        == IF limit > 1 THEN limit ELSE 1
        passing    == {n \in Range(g.nodes) : kinds = <<>> \/ g.kind[n] \in kinds[1]}
        candidates == {n \in passing : Cardinality({m \in passing : m > n}) < lim}
    IN  SortedInts(candidates)

graph_stats(g) ==
    [nodes |-> Len(g.nodes),
     edges |-> Cardinality(g.edges),
     counts_by_kind |-> [k \in {g.kind[n] : n \in Range(g.nodes)} |->
                            Cardinality({n \in Range(g.nodes) : g.kind[n] = k})]]

\* subgraph_for_cid(cid) run with no other thread in between
subgraph_for_cid(g, l, cid) ==
    LET c    == Strip(cid)
        base == thread_for_cid(g, l, c)
    IN  IF c = "" \/ base = <<>> THEN <<>>
        ELSE SortedInts(Range(base) \cup
                        UNION {Range(neighbors(g, base[k], "both", None)) : k \in DOMAIN base})

-----------------------------------------------------------------------------
(* SpecMG: a meme graph over a ledger *)

\* Bound: the number of events of the ledger, and of add_event calls after
\* construction or a rebuild.
MaxEvents == 3

\* What producers append, in families: a conversation with a reflection and
\* an event of an untracked kind; a commitment's life with a reflection on
\* the message that made the commitment.
\* <<kind, meta.text, meta.cid, reflects on the first event, commitments>>
GraphPools ==
    {{<<"user_message", None, None, FALSE, {}>>,
      <<"assistant_message", None, None, FALSE, {}>>,
      <<"reflection", None, None, TRUE, {}>>,
      <<"claim_register", None, None, FALSE, {}>>},
     {<<"assistant_message", None, None, FALSE, {"ship"}>>,
      <<"commitment_open", "ship", "c1", FALSE, {}>>,
      <<"commitment_close", None, "c1", FALSE, {}>>,
      <<"reflection", "note", None, TRUE, {}>>}}

Template(ev) == <<ev.kind, ev.text, ev.cid, ev.about # 0, ev.commits>>

\* The ledger gets an event, of the family of its first event.
MGAppend(t) ==
    /\ Len(mlog) < MaxEvents
    /\ IF mlog = <<>> THEN TRUE
       ELSE \E P \in GraphPools : t \in P /\ Template(mlog[1]) \in P
    /\ mlog' = Append(mlog, GraphEvent(Len(mlog) + 1, t[1], t[2], t[3],
                                       IF t[4] THEN 1 ELSE 0, t[5]))
    /\ UNCHANGED <<graph, mfed, thrVars, rsmVars, migVars, exVars>>

\* graph.add_event(mlog[i])
AddEvent(i) ==
    /\ i \in DOMAIN mlog
    /\ Len(mfed.ids) < MaxEvents
    /\ graph' = add_event(graph, mlog, mlog[i])
    /\ mfed' = [mfed EXCEPT !.ids = Append(@, i)]
    /\ UNCHANGED <<mlog, thrVars, rsmVars, migVars, exVars>>

\* graph.rebuild(eventlog.read_all())
Rebuild ==
    /\ mfed.base = "fresh" \/ mfed.ids # <<>>
    /\ graph' = mg_rebuild(mlog, mlog)
    /\ mfed' = [base |-> "rebuilt", ids |-> <<>>]
    /\ UNCHANGED <<mlog, thrVars, rsmVars, migVars, exVars>>

InitMG ==
    /\ ExAtRest
    /\ mlog = <<>>
    /\ graph = EmptyGraph
    /\ mfed = NotFed
    /\ ThreadsAtRest
    /\ RSMAtRest
    /\ MigAtRest

NextMG ==
    \/ \E t \in UNION GraphPools : MGAppend(t)
    \/ \E i \in 1..MaxEvents : AddEvent(i)
    \/ Rebuild

SpecMG == InitMG /\ [][NextMG]_vars

-----------------------------------------------------------------------------
(* SpecQuery: the graphs that queries are asked of *)

\* graph.add_event(mlog[i]), as Mirror.sync calls it, in any order
Sync(i) ==
    /\ i \in DOMAIN mlog
    /\ graph' = add_event(graph, mlog, mlog[i])
    /\ UNCHANGED <<mlog, mfed, thrVars, rsmVars, migVars, exVars>>

\* graph.rebuild(eventlog.read_all())
Resync ==
    /\ graph' = mg_rebuild(mlog, mlog)
    /\ UNCHANGED <<mlog, mfed, thrVars, rsmVars, migVars, exVars>>

NextQuery ==
    \/ \E t \in UNION GraphPools : MGAppend(t)
    \/ \E i \in 1..MaxEvents : Sync(i)
    \/ Resync

SpecQuery == InitMG /\ [][NextQuery]_vars

-----------------------------------------------------------------------------
(* SpecThreads: a reader thread asking the graph while a writer thread feeds it *)

LedgerOf(ts) ==
    [k \in DOMAIN ts |->
        GraphEvent(k, ts[k][1], ts[k][2], ts[k][3], IF ts[k][4] THEN 1 ELSE 0, ts[k][5])]

\* The ledgers behind the graph: a commitment made, opened, reflected on and
\* closed; a conversation.
ThreadLedgers ==
    {LedgerOf(<<<<"assistant_message", None, None, FALSE, {"ship"}>>,
                <<"commitment_open", "ship", "c1", FALSE, {}>>,
                <<"reflection", "note", None, TRUE, {}>>,
                <<"commitment_close", None, "c1", FALSE, {}>>>>),
     LedgerOf(<<<<"user_message", None, None, FALSE, {}>>,
                <<"assistant_message", None, None, FALSE, {}>>,
                <<"reflection", None, None, TRUE, {}>>,
                <<"claim_register", None, None, FALSE, {}>>>>)}

\* The queries of the reader, each with its arguments, evaluated on one graph.
Queries == {"neighbors", "thread_for_cid", "recent_frontier", "graph_stats"}

Atomically(q, g, l) ==
    CASE q = "neighbors"        -> neighbors(g, 1, "both", None)
      [] q = "thread_for_cid"   -> thread_for_cid(g, l, "c1")
      [] q = "recent_frontier"  -> recent_frontier(g, 2, <<>>)
      [] q = "graph_stats"      -> graph_stats(g)
      [] q = "subgraph_for_cid" -> subgraph_for_cid(g, l, "c1")

\* The graph after a writer operation is one more graph that existed during
\* the reader's query, if a query is in progress.
Seen(g) ==
    IF reader.pc = "neighbors" THEN [reader EXCEPT !.seen = @ \cup {g}] ELSE reader

InitThreads ==
    /\ ExAtRest
    /\ mlog \in ThreadLedgers
    /\ graph = EmptyGraph
    /\ mfed = NotFed
    /\ ThreadsAtRest
    /\ RSMAtRest
    /\ MigAtRest

\* add_event(mlog[n + 1]) takes the lock, returns at once for a node it has
\* or a kind it does not track, and otherwise adds the node.
WriterAddBegin ==
    /\ writer.pc = "idle"
    /\ writer.n < Len(mlog)
    /\ LET ev == mlog[writer.n + 1]
       IN  IF has_node(graph, ev.id) \/ ev.kind \notin TRACKED_KINDS
           THEN /\ writer' = [writer EXCEPT !.n = @ + 1]
                /\ UNCHANGED graph
           ELSE /\ writer' = [writer EXCEPT !.pc = "adding"]
                /\ graph' = add_node(graph, ev.id, ev.kind)
    /\ UNCHANGED <<mlog, mfed, reader, rsmVars, migVars, exVars>>

\* add_event adds the edge of the node and releases the lock.
WriterAddEnd ==
    /\ writer.pc = "adding"
    /\ graph' = AddEventUnguarded(graph, mlog, mlog[writer.n + 1])
    /\ writer' = [pc |-> "idle", n |-> writer.n + 1]
    /\ reader' = Seen(graph')
    /\ UNCHANGED <<mlog, mfed, rsmVars, migVars, exVars>>

\* rebuild(events) takes the lock and clears the graph.
WriterRebuildBegin ==
    /\ writer.pc = "idle"
    /\ graph' = EmptyGraph
    /\ writer' = [writer EXCEPT !.pc = "rebuilding"]
    /\ UNCHANGED <<mlog, mfed, reader, rsmVars, migVars, exVars>>

\* rebuild adds every event and releases the lock.
WriterRebuildEnd ==
    /\ writer.pc = "rebuilding"
    /\ graph' = mg_rebuild(mlog, mlog)
    /\ writer' = [pc |-> "idle", n |-> Len(mlog)]
    /\ reader' = Seen(graph')
    /\ UNCHANGED <<mlog, mfed, rsmVars, migVars, exVars>>

\* A query whose whole body holds the lock.
Ask(q) ==
    /\ reader.pc = "idle"
    /\ writer.pc = "idle"
    /\ reader' = [ReaderIdle EXCEPT !.pc = "done", !.query = q,
                                    !.result = Atomically(q, graph, mlog),
                                    !.seen = {graph}]
    /\ UNCHANGED <<mlog, graph, mfed, writer, rsmVars, migVars, exVars>>

\* subgraph_for_cid("c1") up to the return of its thread_for_cid call, which
\* holds the lock.
SubgraphBegin ==
    /\ reader.pc = "idle"
    /\ writer.pc = "idle"
    /\ LET base == thread_for_cid(graph, mlog, "c1")
       IN  reader' = IF base = <<>>
                     THEN [ReaderIdle EXCEPT !.pc = "done", !.query = "subgraph_for_cid",
                                             !.seen = {graph}]
                     ELSE [ReaderIdle EXCEPT !.pc = "neighbors",
                                             !.query = "subgraph_for_cid",
                                             !.base = base, !.idx = 1,
                                             !.included = Range(base),
                                             !.seen = {graph}]
    /\ UNCHANGED <<mlog, graph, mfed, writer, rsmVars, migVars, exVars>>

\* One round of the loop of subgraph_for_cid: a neighbors call, which holds
\* the lock; after the last round the sorted list is returned.
SubgraphStep ==
    /\ reader.pc = "neighbors"
    /\ writer.pc = "idle"
    /\ LET inc == reader.included \cup
                  Range(neighbors(graph, reader.base[reader.idx], "both", None))
       IN  reader' = IF reader.idx = Len(reader.base)
                     THEN [reader EXCEPT !.pc = "done", !.included = inc,
                                         !.result = SortedInts(inc)]
                     ELSE [reader EXCEPT !.idx = @ + 1, !.included = inc]
    /\ UNCHANGED <<mlog, graph, mfed, writer, rsmVars, migVars, exVars>>

\* The reader has its result and is ready for the next query.
ReaderDone ==
    /\ reader.pc = "done"
    /\ reader' = ReaderIdle
    /\ UNCHANGED <<mlog, graph, mfed, writer, rsmVars, migVars, exVars>>

NextThreads ==
    \/ WriterAddBegin
    \/ WriterAddEnd
    \/ WriterRebuildBegin
    \/ WriterRebuildEnd
    \/ \E q \in Queries : Ask(q)
    \/ SubgraphBegin
    \/ SubgraphStep
    \/ ReaderDone

SpecThreads == InitThreads /\ [][NextThreads]_vars

-----------------------------------------------------------------------------
(* Properties of SpecMG *)

\* The events of the ledger l with the ids of the sequence ids, in that order.
EventsOf(l, ids) == [k \in DOMAIN ids |-> l[ids[k]]]

Distinct(ids) == \A i \in DOMAIN ids, j \in DOMAIN ids : ids[i] = ids[j] => i = j

\* C2: a fresh graph to which events with distinct ids were fed one at a
\* time through add_event has the node set, the node kinds and the labelled
\* edge set of a graph rebuilt from the same events in the same order.
C2_GraphReplayEquivalence ==
    (mfed.base = "fresh" /\ Distinct(mfed.ids)) =>
        LET r == mg_rebuild(mlog, EventsOf(mlog, mfed.ids))
        IN  /\ Range(graph.nodes) = Range(r.nodes)
            /\ graph.kind = r.kind
            /\ graph.edges = r.edges

\* The cids that threads are asked for: the cid of the ledger's commitment,
\* the same with blanks around it, a cid no event carries, and blank ones.
QueryCids == {"c1", " c1 ", "c2", "", " "}

\* The ledger seeded by the command-line test: a user message, the assistant
\* message with the COMMIT line, the open and the close of cid task1.
ExampleLedger ==
    <<GraphEvent(1, "user_message", None, None, 0, {}),
      GraphEvent(2, "assistant_message", None, None, 0, {"task1 hi"}),
      GraphEvent(3, "commitment_open", "task1 hi", "task1", 0, {}),
      GraphEvent(4, "commitment_close", None, "task1", 0, {})>>

\* The thread returned for the query q is empty when no commitment_open node
\* carries the cid c, and is otherwise, for an open node o carrying c: the
\* commits_to successors of o, o, the closes predecessors of o, and the
\* reflects_on predecessors of those successors, each part ascending.
ThreadAsClaimed(q, c) ==
    LET t     == thread_for_cid(graph, mlog, q)
        opens == {n \in Range(graph.nodes) :
                    graph.kind[n] = "commitment_open" /\ mlog[n].cid = c}
    IN  IF opens = {} THEN t = <<>>
        ELSE \E o \in opens :
               LET A == {n \in Range(graph.nodes) : <<o, n, "commits_to">> \in graph.edges}
                   C == {n \in Range(graph.nodes) : <<n, o, "closes">> \in graph.edges}
                   R == {n \in Range(graph.nodes) :
                           \E a \in A : <<n, a, "reflects_on">> \in graph.edges}
               IN  t = SortedInts(A) \o <<o>> \o SortedInts(C) \o SortedInts(R)

ExampleThread ==
    thread_for_cid(mg_rebuild(ExampleLedger, ExampleLedger), ExampleLedger, "task1")
        = <<2, 3, 4>>

StrictlyAscending(t) == \A i \in DOMAIN t, j \in DOMAIN t : i < j => t[i] < t[j]

\* The event ids and the kinds that neighbors are asked for: ids of the
\* ledger and ids outside it; no kind, kinds of the ledger, a kind of none.
QueryIds == 0..(MaxEvents + 1)
QueryKinds == {None, "assistant_message", "reflection", "commitment_open", "user_message"}

\* C15: for every event id, direction and optional kind, neighbors returns a
\* strictly ascending list whose elements are exactly the successors (out),
\* the predecessors (in) or both (both) of the id that have the kind, if a
\* kind is given; the list is empty when the id is not a node.
C15_NeighborsSortedExact ==
    \A eid \in QueryIds, dir \in {"in", "out", "both"}, k \in QueryKinds :
        LET r == neighbors(graph, eid, dir, k)
            Linked(n) ==
                \/ dir \in {"out", "both"} /\ \E e \in graph.edges : e[1] = eid /\ e[2] = n
                \/ dir \in {"in", "both"} /\ \E e \in graph.edges : e[1] = n /\ e[2] = eid
        IN  /\ StrictlyAscending(r)
            /\ Range(r) = {n \in Range(graph.nodes) :
                             Linked(n) /\ (k # None => graph.kind[n] = k)}
            /\ (eid \notin Range(graph.nodes) => r = <<>>)

\* C15 witness: message 1 has the open 2 and the reflection 3 as
\* predecessors, and the kind filter keeps the reflection alone.
C15_Witness ==
    /\ neighbors(graph, 1, "in", None) = <<2, 3>>
    /\ neighbors(graph, 1, "both", "reflection") = <<3>>
    /\ neighbors(graph, 2, "out", None) = <<1>>

\* The limits and the kind sets that frontiers are asked for.
QueryLimits == 0..(MaxEvents + 1)
QueryKindSets ==
    {<<>>, <<{}>>, <<{"assistant_message"}>>, <<{"reflection", "commitment_open"}>>}

\* C16: for every integer limit and optional kind set, recent_frontier
\* returns in ascending order exactly the min(limit, m) greatest of the m
\* nodes whose kind passes the filter, and never more than limit ids.
C16_FrontierWithinLimit ==
    \A limit \in QueryLimits, kinds \in QueryKindSets :
        LET r == recent_frontier(graph, limit, kinds)
            P == {n \in Range(graph.nodes) : kinds = <<>> \/ graph.kind[n] \in kinds[1]}
            m == Cardinality(P)
        IN  /\ StrictlyAscending(r)
            /\ Range(r) \subseteq P
            /\ \A n \in Range(r), x \in P \ Range(r) : x < n
            /\ Len(r) = (IF limit < m THEN limit ELSE m)
            /\ Len(r) <= limit

\* C13: every node of the graph has one of the six tracked kinds.
C13_OnlyTrackedKinds ==
    \A n \in Range(graph.nodes) : graph.kind[n] \in TRACKED_KINDS

-----------------------------------------------------------------------------
(* Properties of SpecThreads *)

\* C17: the result of every query of the reader is the result of the query
\* evaluated on one single graph that existed between two writer operations
\* while the query ran.
C17_QueriesAtomic ==
    reader.pc = "done" =>
        \E g \in reader.seen : reader.result = Atomically(reader.query, g, mlog)

-----------------------------------------------------------------------------
(* The recursive self-model on claims whose fields have the wrong type *)

\* JSON values that are not strings, where the code expects a string: a
\* number such as 5, and null (a key that is present with the value null).
NotAString == {"<number>", "<null>"}

\* A strength that is not a number, such as "abc".
NonNumeric == -1

\* Python truthiness of a field read with .get(): absent, "" and null are
\* falsy.
PyTruthy(v) == Truthy(v) /\ v # "<null>"

\* The first loop of _compute_aggregates raises: claim_type.lower() on a
\* truthy non-string (line 140), or predicate_strengths[predicate] +=
\* strength on a strength that is not a number (line 144).
CountsRaise(claims) ==
    \E c \in ActiveIds(claims) :
        \/ PyTruthy(claims[c].type) /\ claims[c].type \in NotAString
        \/ PyTruthy(claims[c].predicate) /\ claims[c].strength = NonNumeric

\* The knowledge-gap loop raises: claim.get("predicate", "").lower() on a
\* predicate that is present and not a string (line 197).
GapsRaise(claims) ==
    \E c \in ActiveIds(claims) : claims[c].predicate \in NotAString

\* _compute_aggregates with its exceptions: a raise in the first loop leaves
\* every aggregate as it was, a raise in the gap loop comes after
\* behavioral_tendencies was assigned (line 192).
compute_aggregates_checked(r) ==
    IF CountsRaise(r.claims) THEN [rsm |-> r, raised |-> TRUE]
    ELSE IF GapsRaise(r.claims)
    THEN [rsm |-> [r EXCEPT !.behavioral_tendencies = BehavioralTendencies(r.claims)],
          raised |-> TRUE]
    ELSE [rsm |-> compute_aggregates(r), raised |-> FALSE]

\* observe() of an event that is not ignored, before the aggregates are
\* recomputed (lines 72-94).
ObserveStore(r, ev) ==
    LET r1 == [r EXCEPT !.last_processed_event_id = ev.id]
    IN  IF ev.kind = "claim_register" THEN process_claim_event(r1, ev)
        ELSE IF ev.kind = "reflection" THEN process_reflection(r1, ev)
        ELSE r1

\* observe() raises on the event.
ObserveRaises(r, ev) ==
    ~ Ignored(r, ev) /\ compute_aggregates_checked(ObserveStore(r, ev)).raised

\* One whole observe() call with its exceptions, on p = [rsm, log, raised].
observe_checked(p, ev) ==
    IF ObserveRaises(p.rsm, ev)
    THEN [rsm |-> compute_aggregates_checked(ObserveStore(p.rsm, ev)).rsm,
          log |-> p.log, raised |-> TRUE]
    ELSE LET q == observe([rsm |-> p.rsm, log |-> p.log], ev)
         IN  [rsm |-> q.rsm, log |-> q.log, raised |-> FALSE]

\* The loop of rebuild() and the recomputation after it; the first exception
\* ends the call.
RECURSIVE RebuildFrom(_, _)
RebuildFrom(p, events) ==
    IF p.raised THEN p
    ELSE IF events = <<>>
    THEN LET ca == compute_aggregates_checked(p.rsm)
         IN  [rsm |-> ca.rsm, log |-> p.log, raised |-> ca.raised]
    ELSE RebuildFrom(observe_checked(p, Head(events)), Tail(events))

rsm_rebuild_checked(l, events) ==
    RebuildFrom([rsm |-> FreshRSM, log |-> l, raised |-> FALSE], events)

-----------------------------------------------------------------------------
(* SpecBadInput: a self-model fed events of arbitrary content by hand *)

ClaimBadStrength ==
    MkClaim(5, "BELIEF", "self", "prioritizes", "stability", FALSE, NonNumeric, "active")
ClaimBadType ==
    MkClaim(6, "<number>", "self", "prioritizes", "stability", FALSE, 100, "active")
ClaimNullPredicate ==
    MkClaim(7, "BELIEF", "self", "<null>", "stability", FALSE, 100, "active")
ClaimBadButOff ==
    MkClaim(5, "<number>", "self", "<number>", "stability", FALSE, NonNumeric, "retracted")

\* Contents that json.loads rejects or that are no claim, and claims with
\* fields of the wrong type, next to a well-formed claim.
BadPools ==
    {{<<"claim_register", ClaimContent(ClaimStab)>>,
      <<"claim_register", MalformedContent>>,
      <<"claim_register", ClaimContent(ClaimNoId)>>},
     {<<"claim_register", NonObjectContent>>,
      <<"reflection", MalformedContent>>,
      <<"reflection", NonObjectContent>>},
     {<<"claim_register", ClaimContent(ClaimStab)>>,
      <<"claim_register", ClaimContent(ClaimBadStrength)>>,
      <<"claim_register", ClaimContent(ClaimBadButOff)>>},
     {<<"claim_register", ClaimContent(ClaimNov)>>,
      <<"claim_register", ClaimContent(ClaimBadType)>>,
      <<"claim_register", ClaimContent(ClaimNullPredicate)>>}}

InitBadInput ==
    /\ ExAtRest
    /\ log = <<>>
    /\ rsm = FreshRSM
    /\ stack = <<>>
    /\ mode = "manual"
    /\ pool \in BadPools
    /\ nExt = 0
    /\ burst = 0
    /\ dropped = FALSE
    /\ MigAtRest
    /\ MGAtRest

\* rsm.observe(log.get(i)): the exception, if any, reaches the caller.
ObserveChecked(i) ==
    /\ stack = <<>>
    /\ i \in 1..Len(log)
    /\ IF ObserveRaises(rsm, log[i])
       THEN /\ rsm' = compute_aggregates_checked(ObserveStore(rsm, log[i])).rsm
            /\ stack' = <<Frame(i, "raised", <<>>)>>
            /\ dropped' = FALSE
            /\ UNCHANGED <<log, burst, mode, pool, nExt, migVars, mgVars, exVars>>
       ELSE Observe(i)

\* rsm.rebuild(log.read_all())
RebuildChecked ==
    /\ stack = <<>>
    /\ LET res == rsm_rebuild_checked(log, log)
       IN  /\ Len(res.log) <= LogCap
           /\ rsm' = res.rsm
           /\ log' = res.log
           /\ stack' = IF res.raised THEN <<Frame(0, "raised", <<>>)>> ELSE <<>>
    /\ dropped' = FALSE
    /\ UNCHANGED <<burst, mode, pool, nExt, migVars, mgVars, exVars>>

\* The caller has caught the exception.
Caught ==
    /\ stack # <<>>
    /\ Last(stack).pc = "raised"
    /\ stack' = Pop(stack)
    /\ dropped' = FALSE
    /\ UNCHANGED <<log, rsm, burst, mode, pool, nExt, migVars, mgVars, exVars>>

NextBadInput ==
    \/ \E e \in UNION BadPools : ExtAppend(e)
    \/ \E i \in 1..LogCap : ObserveChecked(i)
    \/ RebuildChecked
    \/ Finish
    \/ Caught

SpecBadInput == InitBadInput /\ [][NextBadInput]_vars

-----------------------------------------------------------------------------
(* Properties of SpecBadInput *)

\* The fields of the claim have the types of the data model.
WellTyped(c) ==
    /\ c.type \notin NotAString
    /\ c.predicate \notin NotAString
    /\ c.strength # NonNumeric

\* C11: whatever the content of the claim_register and reflection events,
\* no observe() or rebuild() call raises, and no claim with a field of the
\* wrong type is among the active claims.
C11_NeverAborts ==
    /\ \A k \in DOMAIN stack : stack[k].pc # "raised"
    /\ \A c \in ActiveIds(rsm.claims) : WellTyped(rsm.claims[c])

-----------------------------------------------------------------------------
(* The claim extractor on the text of messages (claim_extractor.py) *)

CLAIM_PREFIXES ==
    ("CLAIM:" :> "CLAIM") @@ ("BELIEF:" :> "BELIEF") @@ ("VALUE:" :> "VALUE")
    @@ ("TENDENCY:" :> "TENDENCY") @@ ("IDENTITY:" :> "IDENTITY")
    @@ ("ONTOLOGY:" :> "ONTOLOGY")

\* A key that a JSON object does not have.
Absent == "<absent>"

\* The strength of a JSON object: absent, a number (in hundredths), the
\* string "nan", or a string that float() rejects.
StrengthAbsent == [k |-> "absent", n |-> 0]
StrengthNum(n) == [k |-> "num", n |-> n]
StrengthNanText == [k |-> "nan", n |-> 0]
StrengthBadText == [k |-> "text", n |-> 0]

\* float("nan"), which is neither below 0 nor above 1
NaN == -2

JsonObject(ty, su, pr, ob, ng, st) ==
    [type |-> ty, subject |-> su, predicate |-> pr, object |-> ob, negated |-> ng,
     strength |-> st]
NoObject == JsonObject(Absent, Absent, Absent, Absent, Absent, StrengthAbsent)

\* A line of text: blanks around it or not (pad), its first word (head; ""
\* when there is none), and what follows the first word after blanks: nothing,
\* plain text, the text of a JSON object, or text that begins with a brace
\* and is no JSON.
TextLine(pad, head, k, text, obj) ==
    [pad |-> pad, head |-> head, rest |-> [k |-> k, text |-> text, obj |-> obj]]
PlainLine(pad, head, text) ==
    TextLine(pad, head, IF text = "" THEN "none" ELSE "text", text, NoObject)
JsonLine(head, obj) == TextLine(FALSE, head, "json", "", obj)
BrokenJsonLine(head) == TextLine(FALSE, head, "badjson", "{broken", NoObject)

\* line.strip()
StripLine(line) == [line EXCEPT !.pad = FALSE]
IsEmptyLine(line) == line.head = "" /\ line.rest.k = "none"

\* The clamp of _build_claim_from_json (lines 110-118)
normalize_strength(st) ==
    CASE st.k = "absent" -> 100
      [] st.k = "num"    -> IF st.n < 0 THEN 0 ELSE IF st.n > 100 THEN 100 ELSE st.n
      [] st.k = "nan"    -> NaN
      [] OTHER           -> 100

build_claim_from_json(parsed, raw_text, source_event_id, default_type) ==
    [claim_id        |-> generate_claim_id(source_event_id, raw_text),
     source_event_id |-> source_event_id,
     type            |-> IF parsed.type = Absent THEN default_type ELSE parsed.type,
     subject         |-> IF parsed.subject = Absent THEN "self" ELSE parsed.subject,
     predicate       |-> IF parsed.predicate = Absent THEN "" ELSE parsed.predicate,
     object          |-> IF parsed.object = Absent THEN None ELSE parsed.object,
     raw_text        |-> raw_text,
     negated         |-> parsed.negated = "true",
     strength        |-> normalize_strength(parsed.strength),
     status          |-> "active"]

build_claim_from_text(text, raw_text, source_event_id, claim_type) ==
    [claim_id        |-> generate_claim_id(source_event_id, raw_text),
     source_event_id |-> source_event_id,
     type            |-> claim_type,
     subject         |-> "self",
     predicate       |-> text,
     object          |-> None,
     raw_text        |-> raw_text,
     negated         |-> FALSE,
     strength        |-> 100,
     status          |-> "active"]

\* _parse_claim_line on a stripped line: <<>> for None
parse_line(line, source_event_id) ==
    IF line.head \notin DOMAIN CLAIM_PREFIXES \/ line.rest.k = "none" THEN <<>>
    ELSE IF line.rest.k = "json"
    THEN <<build_claim_from_json(line.rest.obj, line, source_event_id,
                                 CLAIM_PREFIXES[line.head])>>
    ELSE <<build_claim_from_text(line.rest.text, line, source_event_id,
                                 CLAIM_PREFIXES[line.head])>>

RECURSIVE ParseAll(_, _)
ParseAll(lines, source_event_id) ==
    IF lines = <<>> THEN <<>>
    ELSE (IF IsEmptyLine(Head(lines)) THEN <<>>
          ELSE parse_line(StripLine(Head(lines)), source_event_id))
         \o ParseAll(Tail(lines), source_event_id)

\* An event as the extractor reads it: id with whether it is an int, kind,
\* and content with whether it is a str.
TextEvent(id, idIsInt, kind, isStr, lines) ==
    [id |-> id, idIsInt |-> idIsInt, kind |-> kind,
     content |-> [isStr |-> isStr, lines |-> lines]]

\* extract_claims_from_event for messages of every kind
extract_any_kind(event) ==
    IF ~ event.idIsInt \/ ~ event.content.isStr THEN <<>>
    ELSE ParseAll(event.content.lines, event.id)

\* extract_claims_from_event on the text of the event
extract(event) ==
    IF event.kind # "assistant_message" \/ ~ event.idIsInt \/ ~ event.content.isStr
    THEN <<>>
    ELSE ParseAll(event.content.lines, event.id)

-----------------------------------------------------------------------------
(* SpecExtract: the extractor called on events *)

\* Bound: the number of extractor calls.
MaxCalls == 2

\* Contents of messages: claims in text form, with other text, blanks around
\* a line and empty lines; a prefix with nothing after it; claims in JSON
\* form, complete, empty, with an unknown type and strengths out of range or
\* not a number; a brace that opens no JSON; a prefix in lower case.
ExContents ==
    {<<>>,
     <<PlainLine(FALSE, "BELIEF:", "a")>>,
     <<PlainLine(FALSE, "hello", "there"), PlainLine(TRUE, "BELIEF:", "a"),
       PlainLine(TRUE, "", ""), PlainLine(FALSE, "VALUE:", "b")>>,
     <<PlainLine(FALSE, "BELIEF:", ""), PlainLine(FALSE, "belief:", "a")>>,
     <<JsonLine("CLAIM:", JsonObject("TENDENCY", "self", "p", "o", "true", StrengthNum(50)))>>,
     <<JsonLine("CLAIM:", NoObject)>>,
     <<JsonLine("VALUE:", JsonObject("OPINION", Absent, "p", Absent, Absent, StrengthNum(250))),
       BrokenJsonLine("TENDENCY:")>>,
     <<JsonLine("IDENTITY:", JsonObject(Absent, Absent, "p", Absent, Absent, StrengthNanText)),
       JsonLine("ONTOLOGY:", JsonObject(Absent, Absent, "p", Absent, "false", StrengthNum(-50))),
       JsonLine("CLAIM:", JsonObject(Absent, Absent, "p", Absent, Absent, StrengthBadText))>>}

ExEvents ==
    {TextEvent(id, TRUE, "assistant_message", TRUE, c) : id \in {1, 2}, c \in ExContents}
    \cup {TextEvent(1, TRUE, "user_message", TRUE, <<PlainLine(FALSE, "BELIEF:", "a")>>),
          TextEvent(1, FALSE, "assistant_message", TRUE, <<PlainLine(FALSE, "BELIEF:", "a")>>),
          TextEvent(1, TRUE, "assistant_message", FALSE, <<>>)}

InitExtract ==
    /\ ExAtRest
    /\ RSMAtRest
    /\ MigAtRest
    /\ MGAtRest

\* extract_claims_from_event(ev)
Extract(ev) ==
    /\ Len(xin) < MaxCalls
    /\ xin' = Append(xin, ev)
    /\ xout' = Append(xout, extract(ev))
    /\ UNCHANGED <<rsmVars, migVars, mgVars>>

NextExtract == \E ev \in ExEvents : Extract(ev)

SpecExtract == InitExtract /\ [][NextExtract]_vars

-----------------------------------------------------------------------------
(* Properties of SpecExtract *)

Accepted(ev) == ev.kind = "assistant_message" /\ ev.idIsInt /\ ev.content.isStr

\* The trimmed non-empty lines that begin with a prefix, in line order.
PrefixedLines(ev) ==
    SelectSeq([i \in DOMAIN ev.content.lines |-> StripLine(ev.content.lines[i])],
              LAMBDA l : ~ IsEmptyLine(l) /\ l.head \in DOMAIN CLAIM_PREFIXES)

\* Those of them that have text after the prefix.
PrefixedLinesWithText(ev) ==
    SelectSeq(PrefixedLines(ev), LAMBDA l : l.rest.k # "none")

\* The k-th call returned nothing for an event that is not accepted, and
\* otherwise one claim for each of the lines cl, in their order.
ExtractedFrom(k, cl) ==
    IF ~ Accepted(xin[k]) THEN xout[k] = <<>>
    ELSE /\ Len(xout[k]) = Len(cl)
         /\ \A j \in DOMAIN cl : xout[k][j].raw_text = cl[j]

\* C18 as stated: extract returns the empty list unless the event is an
\* assistant_message with an integer id and a string content, and otherwise
\* one claim per non-empty trimmed line that begins with one of the six
\* prefixes, in line order, and nothing for any other line.
C18_OnePerPrefixedLine ==
    \A k \in DOMAIN xin : ExtractedFrom(k, PrefixedLines(xin[k]))

\* C18 amended: the same, for the lines that have text after the prefix.
C18_OnePerPrefixedLineWithText ==
    \A k \in DOMAIN xin : ExtractedFrom(k, PrefixedLinesWithText(xin[k]))

\* C18 witness: a message with other text, a claim line with blanks around
\* it, an empty line and a second claim line gave the two claims in order;
\* a message with a bare prefix and a lower-case prefix gave none.
C18_Witness ==
    /\ Len(xin) = 2
    /\ Accepted(xin[1]) /\ Len(xin[1].content.lines) = 4
    /\ Len(xout[1]) = 2
    /\ xout[1][1].raw_text = PlainLine(FALSE, "BELIEF:", "a")
    /\ xout[1][2].raw_text = PlainLine(FALSE, "VALUE:", "b")
    /\ Accepted(xin[2])
    /\ xin[2].content.lines = <<PlainLine(FALSE, "BELIEF:", ""), PlainLine(FALSE, "belief:", "a")>>
    /\ xout[2] = <<>>

\* The trimmed lines of the event.
TrimmedLines(ev) == {StripLine(l) : l \in Range(ev.content.lines)}

\* C19: the claim_id of an extracted claim is a function of its source event
\* id and its full trimmed line: two claims, of the same or of different
\* extractions, have the same claim_id exactly when they agree in both.
C19_ClaimIdOfPair ==
    \A k1 \in DOMAIN xout, k2 \in DOMAIN xout :
        \A j1 \in DOMAIN xout[k1], j2 \in DOMAIN xout[k2] :
            LET c1 == xout[k1][j1]
                c2 == xout[k2][j2]
            IN  /\ c1.source_event_id = xin[k1].id
                /\ c1.raw_text \in TrimmedLines(xin[k1])
                /\ (c1.claim_id = c2.claim_id)
                       <=> (c1.source_event_id = c2.source_event_id
                            /\ c1.raw_text = c2.raw_text)

\* C19 witness: the line "BELIEF: a" extracted from event 1, once alone and
\* once with blanks around it among other lines, has one claim_id.
C19_Witness ==
    /\ Len(xout) = 2
    /\ xin[1].id = 1 /\ xin[2].id = 1
    /\ Len(xout[1]) = 1 /\ Len(xout[2]) = 2
    /\ xin[2].content.lines[2].pad
    /\ xout[1][1].claim_id = xout[2][1].claim_id
    /\ xout[1][1].claim_id # xout[2][2].claim_id

ClaimTypes == {CLAIM_PREFIXES[p] : p \in DOMAIN CLAIM_PREFIXES}

\* C20: every claim the extractor returns has a type among the six claim
\* types, a non-empty predicate, a strength in [0, 1], status "active", the
\* id of the event as source_event_id and the full line as raw_text.
C20_DataModel ==
    \A k \in DOMAIN xout : \A j \in DOMAIN xout[k] :
        LET c == xout[k][j]
        IN  /\ c.type \in ClaimTypes
            /\ c.predicate # ""
            /\ c.strength \in 0..100
            /\ c.status = "active"
            /\ c.source_event_id = xin[k].id
            /\ c.raw_text \in TrimmedLines(xin[k])

\* C21: the strength of a claim from a JSON-form line is the strength of
\* the payload clamped to [0, 1] when that is a number or parses as one, and
\* 1.0 when it is absent or does not parse; a claim from a text-form line has
\* strength 1.0.
C21_StrengthNormalized ==
    \A k \in DOMAIN xout : \A j \in DOMAIN xout[k] :
        LET c  == xout[k][j]
            st == c.raw_text.rest.obj.strength
        IN  IF c.raw_text.rest.k # "json" THEN c.strength = 100
            ELSE CASE st.k = "num" ->
                        /\ c.strength \in 0..100
                        /\ (st.n \in 0..100 => c.strength = st.n)
                        /\ (st.n > 100 => c.strength = 100)
                        /\ (st.n < 0 => c.strength = 0)
                   [] st.k = "nan" -> c.strength \in 0..100
                   [] OTHER -> c.strength = 100

-----------------------------------------------------------------------------
(* SpecDetect: the contradiction check of claim_extractor.py *)

\* detect_contradictions that looks at claims of every status
detect_contradictions_any_status(claims, new_claim) ==
    IF ~ Truthy(new_claim.subject) \/ ~ Truthy(new_claim.predicate) THEN <<>>
    ELSE SelectSeq([i \in DOMAIN claims |-> claims[i].claim_id],
                   LAMBDA id : \E i \in DOMAIN claims :
                       /\ claims[i].claim_id = id
                       /\ claims[i].subject = new_claim.subject
                       /\ claims[i].predicate = new_claim.predicate
                       /\ (claims[i].object # new_claim.object
                           \/ claims[i].negated # new_claim.negated))

\* The loop of detect_contradictions over the list, from its first claim on
RECURSIVE Contradicted(_, _)
Contradicted(claims, new_claim) ==
    IF claims = <<>> THEN <<>>
    ELSE LET claim == Head(claims)
         IN  (IF /\ claim.status = "active"
                 /\ claim.subject = new_claim.subject
                 /\ claim.predicate = new_claim.predicate
                 /\ (claim.object # new_claim.object
                     \/ claim.negated # new_claim.negated)
              THEN <<claim.claim_id>> ELSE <<>>)
             \o Contradicted(Tail(claims), new_claim)

detect_contradictions(claims, new_claim) ==
    IF ~ Truthy(new_claim.subject) \/ ~ Truthy(new_claim.predicate) THEN <<>>
    ELSE Contradicted(claims, new_claim)

\* Claims about one subject and predicate that differ in object, in negation
\* and in status, a claim about another subject, and claims without a
\* subject or with an empty predicate.
DetectClaims ==
    {MkClaim(1, "BELIEF", "self", "is", "stable", FALSE, 100, "active"),
     MkClaim(2, "BELIEF", "self", "is", "novel", FALSE, 100, "active"),
     MkClaim(3, "BELIEF", "self", "is", "stable", TRUE, 100, "active"),
     MkClaim(4, "BELIEF", "user", "is", "novel", FALSE, 100, "active"),
     MkClaim(5, "BELIEF", "self", "is", "novel", FALSE, 100, "retracted"),
     MkClaim(6, "BELIEF", None, "is", "novel", FALSE, 100, "active"),
     MkClaim(7, "BELIEF", "self", "", "novel", FALSE, 100, "active")}

DetectLists ==
    {<<>>} \cup {<<a>> : a \in DetectClaims}
    \cup {<<a, b>> : a \in DetectClaims, b \in DetectClaims}
    \cup {<<MkClaim(2, "BELIEF", "self", "is", "novel", FALSE, 100, "active"), a,
            MkClaim(3, "BELIEF", "self", "is", "stable", TRUE, 100, "active")>> :
              a \in DetectClaims}

\* detect_contradictions(claims, new_claim); the state keeps the last call.
Detect(claims, new_claim) ==
    /\ xin' = <<[claims |-> claims, new_claim |-> new_claim]>>
    /\ xout' = <<detect_contradictions(claims, new_claim)>>
    /\ UNCHANGED <<rsmVars, migVars, mgVars>>

NextDetect == \E claims \in DetectLists, new_claim \in DetectClaims : Detect(claims, new_claim)

SpecDetect == InitExtract /\ [][NextDetect]_vars

\* C22: detect_contradictions returns, in list order, the ids of the claims
\* of the list that are active, have the subject and the predicate of the
\* new claim and differ from it in object or in negated; it returns the
\* empty list when the new claim has no subject or no predicate.
C22_ContradictedIds ==
    \A k \in DOMAIN xin :
        LET cs == xin[k].claims
            n  == xin[k].new_claim
            Hit(i) == /\ cs[i].status = "active"
                      /\ cs[i].subject = n.subject /\ cs[i].predicate = n.predicate
                      /\ ~ (cs[i].object = n.object /\ cs[i].negated = n.negated)
            hits == {i \in DOMAIN cs : Hit(i)}
            r  == xout[k]
        IN  IF n.subject \in {None, ""} \/ n.predicate \in {None, ""} THEN r = <<>>
            ELSE /\ Len(r) = Cardinality(hits)
                 /\ \A j \in DOMAIN r :
                        \E i \in hits : /\ r[j] = cs[i].claim_id
                                        /\ Cardinality({h \in hits : h < i}) = j - 1

\* C22 witness: against the claim that self is stable, a list holding the
\* claim that self is novel, the same claim retracted, and the claim that
\* self is not stable gives the first and the third id.
C22_Witness ==
    /\ Len(xin) = 1
    /\ xin[1].new_claim.claim_id = 1
    /\ Len(xin[1].claims) = 3
    /\ xin[1].claims[2].status = "retracted"
    /\ xout[1] = <<2, 3>>

-----------------------------------------------------------------------------
(* SpecStore: the claim store of the self-model, its aggregates and its
   accessors (rsm.py) *)

\* load_snapshot that keeps the claims and the watermark
load_snapshot_no_reset(r, s) ==
    [r EXCEPT !.behavioral_tendencies = s.behavioral_tendencies,
              !.knowledge_gaps = s.knowledge_gaps,
              !.interaction_meta_patterns = s.interaction_meta_patterns,
              !.reflection_intents = @ \o s.reflections]

\* load_snapshot(snapshot): reset(), then the four legacy fields of the
\* snapshot; each reflection {"intent": i} gives the intent i.
load_snapshot(r, s) ==
    [FreshRSM EXCEPT !.behavioral_tendencies = s.behavioral_tendencies,
                     !.knowledge_gaps = s.knowledge_gaps,
                     !.interaction_meta_patterns = s.interaction_meta_patterns,
                     !.reflection_intents = s.reflections]

\* get_claims(): the values of _claims whose status is "active" (the model's
\* claims map keeps no insertion order: the records as a set).
get_claims(r) == {r.claims[c] : c \in ActiveIds(r.claims)}

\* get_claim_by_id(claim_id): _claims.get(claim_id); None is NoClaim.
get_claim_by_id(r, claim_id) ==
    IF claim_id \in DOMAIN r.claims THEN r.claims[claim_id] ELSE NoClaim

\* Bound: the number of calls that change the store.
MaxObs == 3

DetA   == MkClaim(11, "BELIEF", "self", "is_deterministic", "always", FALSE, 100, "active")
DetB   == MkClaim(12, "VALUE", "self", "is_deterministic", "novelty", FALSE, 50, "active")
DetC   == MkClaim(13, "TENDENCY", "self", "deterministic", "always", FALSE, 50, "active")
DetOff == MkClaim(14, "IDENTITY", "self", "replay", "always", FALSE, 100, "retracted")
DupA   == MkClaim(11, "IDENTITY", "self", "replay", "stability", FALSE, 50, "retracted")
GapE   == MkClaim(15, "BELIEF", "self", "knowledge_gap", "physics", FALSE, 100, "active")

StorePool ==
    {<<"claim_register", ClaimContent(DetA)>>,
     <<"claim_register", ClaimContent(DetB)>>,
     <<"claim_register", ClaimContent(DetC)>>,
     <<"claim_register", ClaimContent(DetOff)>>,
     <<"claim_register", ClaimContent(DupA)>>,
     <<"claim_register", ClaimContent(GapE)>>,
     <<"reflection", ReflectionContent("plan")>>}

NinePredicates == <<"p01", "p02", "p03", "p04", "p05", "p06", "p07", "p08", "p09">>

\* A ledger of nine claims with nine predicates, one of them weaker.
NineClaims ==
    [i \in 1..9 |->
        [id |-> i, kind |-> "claim_register",
         content |-> ClaimContent(MkClaim(20 + i, "BELIEF", "self",
                        NinePredicates[i], "always", FALSE,
                        IF i = 3 THEN 30 ELSE 100, "active")),
         meta |-> [source |-> "external"]]]

\* A call of an accessor or of load_snapshot, as the state keeps it.
StoreCall(op, id, snap) == [op |-> op, id |-> id, snap |-> snap]

\* A fresh self-model on an empty ledger with every producer, or a
\* self-model rebuilt from the ledger of nine claims with the producers of
\* the deterministic claims.
StoreStarts ==
    {[ledger |-> <<>>, pool |-> StorePool],
     [ledger |-> NineClaims,
      pool |-> {<<"claim_register", ClaimContent(DetA)>>,
                <<"claim_register", ClaimContent(DetB)>>,
                <<"claim_register", ClaimContent(DetC)>>}]}

InitStore ==
    /\ xin = <<>> /\ xout = <<>>
    /\ \E st \in StoreStarts :
          LET p == IF st.ledger = <<>> THEN [rsm |-> FreshRSM, log |-> <<>>]
                   ELSE rsm_rebuild(st.ledger, st.ledger)
          IN  log = p.log /\ rsm = p.rsm /\ pool = st.pool
    /\ stack = <<>> /\ mode = "manual"
    /\ nExt = 0 /\ burst = 0 /\ dropped = FALSE
    /\ MigAtRest
    /\ MGAtRest

\* A producer appends an event and the self-model observes it.
StoreObserve(e) ==
    /\ e \in pool
    /\ nExt < MaxObs
    /\ nExt' = nExt + 1
    /\ LET l == Append(log, MkEvent(log, e[1], e[2], "external"))
           p == observe([rsm |-> rsm, log |-> l], l[Len(l)])
       IN  log' = p.log /\ rsm' = p.rsm
    /\ xin' = <<>> /\ xout' = <<>>
    /\ UNCHANGED <<stack, mode, pool, burst, dropped, migVars, mgVars>>

\* The snapshots at hand: the current one and the first one on the ledger.
SnapshotsAtHand ==
    {snapshot(rsm, log)}
    \cup {log[i].content.snapshot[1] : i \in
            {j \in DOMAIN log : /\ log[j].kind = "rsm_update"
                                /\ \A k \in 1..(j - 1) : log[k].kind # "rsm_update"}}

\* load_snapshot(s) of a snapshot at hand.
LoadSnapshot ==
    \E s \in SnapshotsAtHand :
        /\ nExt < MaxObs
        /\ nExt' = nExt + 1
        /\ rsm' = load_snapshot(rsm, s)
        /\ xin' = <<StoreCall("load_snapshot", 0, <<s>>)>>
        /\ xout' = <<>>
        /\ UNCHANGED <<log, stack, mode, pool, burst, dropped, migVars, mgVars>>

NextStore ==
    \/ \E e \in StorePool : StoreObserve(e)
    \/ LoadSnapshot

SpecStore == InitStore /\ [][NextStore]_vars

-----------------------------------------------------------------------------
(* SpecRead: the accessors of the claim store *)

\* Bound: the number of events of the ledgers the stores are rebuilt from.
MaxStored == 2

StoreLedgers ==
    UNION {[1..n -> StorePool] : n \in 0..MaxStored}

\* A self-model rebuilt from a ledger of events of the producers.
InitRead ==
    /\ xin = <<>> /\ xout = <<>>
    /\ \E es \in StoreLedgers :
          LET l == [i \in DOMAIN es |->
                      [id |-> i, kind |-> es[i][1], content |-> es[i][2],
                       meta |-> [source |-> "external"]]]
              p == rsm_rebuild(l, l)
          IN  log = p.log /\ rsm = p.rsm
    /\ stack = <<>> /\ mode = "manual" /\ pool = StorePool
    /\ nExt = 0 /\ burst = 0 /\ dropped = FALSE
    /\ MigAtRest
    /\ MGAtRest

GetClaims ==
    /\ xin' = <<StoreCall("get_claims", 0, <<>>)>>
    /\ xout' = <<get_claims(rsm)>>
    /\ UNCHANGED <<rsmVars, migVars, mgVars>>

StoreIds == {11, 14, 99}

GetClaimById(claim_id) ==
    /\ xin' = <<StoreCall("get_claim_by_id", claim_id, <<>>)>>
    /\ xout' = <<get_claim_by_id(rsm, claim_id)>>
    /\ UNCHANGED <<rsmVars, migVars, mgVars>>

NextRead ==
    \/ GetClaims
    \/ \E id \in StoreIds : GetClaimById(id)

SpecRead == InitRead /\ [][NextRead]_vars

-----------------------------------------------------------------------------
(* Properties of SpecStore *)

-----------------------------------------------------------------------------
(* Properties of SpecRead *)

\* C25: the accessors read over the active claims only: get_claims() returns
\* exactly the stored records whose status is "active", and
\* get_claim_by_id(id) returns the stored record of id when that record is
\* active and None for an unknown id or a record that is not active.
C25_AccessorsReadActiveOnly ==
    \A k \in DOMAIN xin :
        LET cl == rsm.claims
        IN  /\ xin[k].op = "get_claims" =>
                   xout[k] = {cl[c] : c \in {d \in DOMAIN cl : cl[d].status = "active"}}
            /\ xin[k].op = "get_claim_by_id" =>
                   IF xin[k].id \in DOMAIN cl /\ cl[xin[k].id].status = "active"
                   THEN xout[k] = cl[xin[k].id]
                   ELSE xout[k] = NoClaim

-----------------------------------------------------------------------------
(* More properties of SpecStore *)

\* The step observes a claim_register event whose claim has an id that is
\* already stored.
ObservesStoredId ==
    /\ Len(log') > Len(log)
    /\ log'[Len(log) + 1].kind = "claim_register"
    /\ log'[Len(log) + 1].content.tag = "obj"
    /\ log'[Len(log) + 1].content.claim.claim_id \in DOMAIN rsm.claims

C29_LoadSnapshotLegacyOnly ==
    \A k \in DOMAIN xin :
        xin[k].op = "load_snapshot" =>
            LET s   == xin[k].snap[1]
                now == snapshot(rsm, log)
            IN  /\ now.behavioral_tendencies = s.behavioral_tendencies
                /\ now.knowledge_gaps = s.knowledge_gaps
                /\ now.interaction_meta_patterns = s.interaction_meta_patterns
                /\ now.reflections = s.reflections
                /\ DOMAIN rsm.claims = {}
                /\ get_claims(rsm) = {}
                /\ now.active_claim_count = 0
                /\ now.contradiction_events = <<>>
                /\ now.top_tendencies = <<>>
                /\ rsm.last_processed_event_id = NoneId

\* C29 witness: the snapshot loaded was taken with an active claim, a
\* knowledge gap and a reflection intent.
C29_Witness ==
    /\ Len(xin) = 1
    /\ xin[1].op = "load_snapshot"
    /\ xin[1].snap[1].active_claim_count >= 1
    /\ xin[1].snap[1].top_tendencies # <<>>
    /\ xin[1].snap[1].knowledge_gaps = <<"physics">>
    /\ xin[1].snap[1].reflections = <<"plan">>
    /\ rsm.reflection_intents = <<"plan">>

-----------------------------------------------------------------------------
(* SpecCore: the two writers of the core, the migrator on a ledger of
   assistant messages and the self-model observing what producers append *)

\* The ledgers the migrator is called on: one or two assistant messages.
CoreLedgers ==
    {<<MigEvent(<<>>, "assistant_message", LinesContent(b), "external", None)>> :
        b \in Bodies}
    \cup {<<MigEvent(<<>>, "assistant_message", LinesContent(b1), "external", None),
            MigEvent(<<1>>, "assistant_message", LinesContent(b2), "external", None)>> :
        b1 \in Bodies, b2 \in Bodies}

CorePool ==
    {<<"claim_register", ClaimContent(DetA)>>,
     <<"reflection", ReflectionContent("plan")>>}

InitCore ==
    /\ xin = <<>> /\ xout = <<>>
    /\ elog \in CoreLedgers /\ mig = MigIdle /\ mhist = MigNoCall
    /\ log = <<>> /\ rsm = FreshRSM /\ stack = <<>> /\ mode = "manual"
    /\ pool = CorePool /\ nExt = 0 /\ burst = 0 /\ dropped = FALSE
    /\ MGAtRest

NextCore ==
    \/ MigrateCall
    \/ MigrateEmit
    \/ MigrateCrash
    \/ \E e \in CorePool : StoreObserve(e)

SpecCore == InitCore /\ [][NextCore]_vars

PermittedKinds == {"claim_register", "rsm_update"}

\* C27: every event the migrator appends to its ledger, and every event the
\* self-model appends after the producer's event it observes, has kind
\* claim_register or rsm_update (so never config, checkpoint_manifest,
\* embedding_add or retrieval_selection).
C27_OnlyPermittedKinds ==
    [][/\ \A i \in (Len(elog) + 1)..Len(elog') : elog'[i].kind \in PermittedKinds
       /\ \A i \in (Len(log) + 2)..Len(log') : log'[i].kind \in PermittedKinds]_vars

\* C27 witness: the migrator has registered a claim and the self-model has
\* emitted an update after a reflection.
C27_Witness ==
    /\ \E i \in DOMAIN elog : /\ elog[i].meta.source = "claim_migration"
                              /\ elog[i].kind = "claim_register"
    /\ \E j \in DOMAIN log : /\ j > 1
                             /\ log[j - 1].kind = "reflection"
                             /\ log[j].meta.source = "rsm"
                             /\ log[j].kind = "rsm_update"

-----------------------------------------------------------------------------
(* SpecConcept: concept edges lifted from the graph of a ledger
   (meme_graph.py, get_concept_edges) *)

\* _concepts_for_event: the non-empty strings among the tokens bound to the
\* event; an event without a binding has none.
concepts_for_event(concept_bindings, eid) ==
    IF eid \in DOMAIN concept_bindings
    THEN {t \in concept_bindings[eid] : t \notin NotAString /\ t # ""}
    ELSE {}

\* The label of the edge from src to tgt only
EdgeLabelForward(g, src, tgt) ==
    IF \E e \in g.edges : e[1] = src /\ e[2] = tgt
    THEN (CHOOSE e \in g.edges : e[1] = src /\ e[2] = tgt)[3]
    ELSE "related"

\* The label of the edge from src to tgt, else of the edge from tgt to src,
\* else "related".
EdgeLabel(g, src, tgt) ==
    IF \E e \in g.edges : e[1] = src /\ e[2] = tgt
    THEN (CHOOSE e \in g.edges : e[1] = src /\ e[2] = tgt)[3]
    ELSE IF \E e \in g.edges : e[1] = tgt /\ e[2] = src
    THEN (CHOOSE e \in g.edges : e[1] = tgt /\ e[2] = src)[3]
    ELSE "related"

\* sorted(edges) of (source_id, target_id, relation) triples, as records
RECURSIVE SortedEdges(_)
SortedEdges(T) ==
    IF T = {} THEN <<>>
    ELSE LET Key(t) == <<StrRank(t[1]), StrRank(t[2]), StrRank(t[3])>>
             Leq(a, b) == \/ a[1] < b[1]
                          \/ a[1] = b[1] /\ a[2] < b[2]
                          \/ a[1] = b[1] /\ a[2] = b[2] /\ a[3] <= b[3]
             m == CHOOSE t \in T : \A u \in T : Leq(Key(t), Key(u))
         IN  <<[source_id |-> m[1], target_id |-> m[2], relation |-> m[3],
                weight |-> 100]>> \o SortedEdges(T \ {m})

\* The loop of get_concept_edges over the graph rebuilt from the ledger,
\* with the neighbours of the direction.
ConceptTriples(l, concept_bindings, direction) ==
    LET g == mg_rebuild(l, l)
    IN  UNION {UNION {{<<c1, c2, EdgeLabel(g, node, nbr)>> :
                          c1 \in concepts_for_event(concept_bindings, node),
                          c2 \in concepts_for_event(concept_bindings, nbr)}
                      \ {<<c, c, EdgeLabel(g, node, nbr)>> :
                          c \in concepts_for_event(concept_bindings, node)} :
                      nbr \in Range(neighbors(g, node, direction, None))} :
               node \in Range(g.nodes)}

\* get_concept_edges that follows edges forward only
get_concept_edges_forward(l, concept_bindings) ==
    SortedEdges(ConceptTriples(l, concept_bindings, "out"))

get_concept_edges(l, concept_bindings) ==
    SortedEdges(ConceptTriples(l, concept_bindings, "both"))

\* Bindings of concept tokens to event ids: one concept everywhere; two
\* concepts in turn; two concepts on the first event; tokens that are empty
\* or not strings beside a concept; two concepts on every event.
ConceptBindings ==
    {[i \in 1..(MaxEvents + 1) |-> {"always"}],
     [i \in 1..(MaxEvents + 1) |-> IF i % 2 = 1 THEN {"always"} ELSE {"novelty"}],
     [i \in 1..(MaxEvents + 1) |-> IF i = 1 THEN {"always", "novelty"} ELSE {"physics"}],
     [i \in 1..2 |-> IF i = 1 THEN {"always", "", "<number>"} ELSE {"", "<null>"}],
     [i \in 1..(MaxEvents + 1) |-> {"always", "novelty"}]}

\* get_concept_edges(eventlog=..., concept_bindings=...) on the ledger
ConceptEdges(concept_bindings) ==
    /\ xin' = <<concept_bindings>>
    /\ xout' = <<get_concept_edges(mlog, concept_bindings)>>
    /\ UNCHANGED <<mgVars, rsmVars, migVars>>

\* The ledger grows; the edges asked for before are forgotten.
ConceptAppend(t) ==
    /\ Len(mlog) < MaxEvents
    /\ IF mlog = <<>> THEN TRUE
       ELSE \E P \in GraphPools : t \in P /\ Template(mlog[1]) \in P
    /\ mlog' = Append(mlog, GraphEvent(Len(mlog) + 1, t[1], t[2], t[3],
                                       IF t[4] THEN 1 ELSE 0, t[5]))
    /\ xin' = <<>> /\ xout' = <<>>
    /\ UNCHANGED <<graph, mfed, thrVars, rsmVars, migVars>>

NextConcept ==
    \/ \E P \in GraphPools : \E t \in P : ConceptAppend(t)
    \/ \E b \in ConceptBindings : ConceptEdges(b)

SpecConcept == InitMG /\ [][NextConcept]_vars

\* C28: get_concept_edges gives exactly the triples (c1, c2, label) for which
\* a node u of the graph and a neighbour v of u, in either direction, have
\* c1 among the non-empty string concepts of u, c2 among those of v, c1 other
\* than c2, and label the label of the edge between u and v; no triple twice,
\* no entry from a concept to itself, weight 1.0 everywhere, and the list in
\* the order of (source_id, target_id, relation).
C28_ConceptEdges ==
    \A k \in DOMAIN xin :
        LET b  == xin[k]
            r  == xout[k]
            g  == mg_rebuild(mlog, mlog)
            Of(u) == IF u \in DOMAIN b
                     THEN b[u] \ {"", "<number>", "<null>"} ELSE {}
            claimed ==
                {t \in (UNION {Of(u) : u \in Range(g.nodes)})
                       \X (UNION {Of(u) : u \in Range(g.nodes)})
                       \X {e[3] : e \in g.edges} :
                   /\ t[1] # t[2]
                   /\ \E e \in g.edges :
                         /\ e[3] = t[3]
                         /\ \/ t[1] \in Of(e[1]) /\ t[2] \in Of(e[2])
                            \/ t[1] \in Of(e[2]) /\ t[2] \in Of(e[1])}
            Triple(i) == <<r[i].source_id, r[i].target_id, r[i].relation>>
        IN  /\ {Triple(i) : i \in DOMAIN r} = claimed
            /\ Len(r) = Cardinality(claimed)
            /\ \A i \in DOMAIN r :
                   /\ r[i].source_id # r[i].target_id
                   /\ r[i].weight = 100
                   /\ \A j \in DOMAIN r : i < j =>
                        \/ StrRank(r[i].source_id) < StrRank(r[j].source_id)
                        \/ /\ r[i].source_id = r[j].source_id
                           /\ StrRank(r[i].target_id) < StrRank(r[j].target_id)
                        \/ /\ r[i].source_id = r[j].source_id
                           /\ r[i].target_id = r[j].target_id
                           /\ StrRank(r[i].relation) < StrRank(r[j].relation)

\* C28 witness: a reflection on itself and two concepts on every event give
\* both orders of the pair under reflects_on, beside the edges of a reply.
C28_Witness ==
    /\ Len(xin) = 1
    /\ Len(xout[1]) >= 4
    /\ \E i \in DOMAIN xout[1] : xout[1][i].relation = "reflects_on"
    /\ \E i \in DOMAIN xout[1] : xout[1][i].relation = "replies_to"
    /\ xout[1][1].source_id = "always"

-----------------------------------------------------------------------------
(* More properties of SpecQuery *)

\* C30: on every graph, add_event of an event whose id is a node already, or
\* whose kind is not tracked, leaves the nodes, their kinds and the edges as
\* they are; so adding an event twice gives the graph of adding it once; and
\* add_event of any event keeps every node with its kind and every edge with
\* its label.
C30_AddEventNoOp ==
    \A i \in DOMAIN mlog :
        LET ev   == mlog[i]
            once == add_event(graph, mlog, ev)
        IN  /\ (ev.id \in Range(graph.nodes) \/ ev.kind \notin TRACKED_KINDS
                   => /\ once.nodes = graph.nodes
                      /\ once.kind = graph.kind
                      /\ once.edges = graph.edges)
            /\ add_event(once, mlog, ev) = once
            /\ IsPrefix(graph.nodes, once.nodes)
            /\ \A n \in Range(graph.nodes) : once.kind[n] = graph.kind[n]
            /\ graph.edges \subseteq once.edges
            /\ \A e \in once.edges \ graph.edges : e[1] = ev.id

\* C30 witness: the ledger holds an assistant message that is a node with
\* an edge, a later user message that is a node, and an event that is not a
\* node yet.
C30_Witness ==
    /\ \E i, j \in DOMAIN mlog :
          /\ i < j
          /\ mlog[i].kind = "assistant_message" /\ mlog[i].id \in Range(graph.nodes)
          /\ \E e \in graph.edges : e[1] = mlog[i].id
          /\ mlog[j].kind = "user_message" /\ mlog[j].id \in Range(graph.nodes)
    /\ \E k \in DOMAIN mlog : mlog[k].id \notin Range(graph.nodes)

\* C31: add_event of an assistant_message that is not a node yet adds
\* exactly one edge, labelled replies_to, from the event to the greatest id
\* among the user_message nodes of the graph at that moment, and no edge when
\* the graph has no user_message node; add_event of a user_message afterwards
\* leaves the edges as they are.
C31_RepliesToLastUser ==
    \A i \in DOMAIN mlog :
        LET ev    == mlog[i]
            users == {n \in Range(graph.nodes) : graph.kind[n] = "user_message"}
            once  == add_event(graph, mlog, ev)
        IN  ev.kind = "assistant_message" /\ ev.id \notin Range(graph.nodes) =>
               /\ graph.edges \subseteq once.edges
               /\ once.edges \ graph.edges =
                     (IF users = {} THEN {}
                      ELSE {<<ev.id, CHOOSE n \in users : \A m \in users : m <= n,
                              "replies_to">>})
               /\ \A j \in DOMAIN mlog :
                      mlog[j].kind = "user_message" =>
                          add_event(once, mlog, mlog[j]).edges = once.edges

\* C31 witness: an assistant message replies to a user message, and a user
\* message of a greater id joined the graph after it.
C31_Witness ==
    \E e \in graph.edges :
        /\ e[3] = "replies_to"
        /\ \E a, b \in DOMAIN graph.nodes :
              /\ a < b
              /\ graph.nodes[a] = e[1]
              /\ graph.kind[graph.nodes[b]] = "user_message"
              /\ graph.nodes[b] > e[2]

-----------------------------------------------------------------------------
(* More properties of SpecMig *)

\* The place of a claim in the ledger l: its source message and the first
\* line of that message that reads as the claim's text.
ClaimPlace(l, c) ==
    <<c.source_event_id,
      CHOOSE k \in DOMAIN l[c.source_event_id].content.lines :
         /\ l[c.source_event_id].content.lines[k] = c.raw_text
         /\ \A j \in 1..(k - 1) : l[c.source_event_id].content.lines[j] # c.raw_text>>

\* C32: the ledger is only ever appended to, and when a migrate call returns
\* the ledger is the ledger it read followed by as many claim_register events
\* as the call returns; each of them carries a claim of a line of an
\* assistant_message of the ledger read, and they are in the order of the
\* source messages and then of the lines; a ledger without an
\* assistant_message gives 0 and no event.
C32_MigrateAppendsSuffix ==
    [][/\ IsPrefix(elog, elog')
       /\ mhist'.last = "return" =>
            LET l   == elog'
                h   == mhist'
                suf == SubSeq(l, h.read + 1, Len(l))
            IN  /\ Len(l) = h.read + h.ret
                /\ \A k \in DOMAIN suf :
                       /\ suf[k].kind = "claim_register"
                       /\ suf[k].meta.source = "claim_migration"
                       /\ suf[k].content.tag = "obj"
                       /\ suf[k].content.claim.source_event_id \in 1..h.read
                       /\ l[suf[k].content.claim.source_event_id].kind = "assistant_message"
                       /\ suf[k].content.claim.raw_text \in
                            Range(l[suf[k].content.claim.source_event_id].content.lines)
                /\ \A j \in DOMAIN suf, k \in DOMAIN suf :
                       j < k =>
                          LET pj == ClaimPlace(l, suf[j].content.claim)
                              pk == ClaimPlace(l, suf[k].content.claim)
                          IN  pj[1] < pk[1] \/ (pj[1] = pk[1] /\ pj[2] < pk[2])
                /\ (~ \E i \in 1..h.read : l[i].kind = "assistant_message")
                       => h.ret = 0 /\ suf = <<>>]_vars

\* C32 witness: a call on a ledger of two assistant messages has returned 3
\* after appending the claim of the first message and the two claims of the
\* second.
C32_Witness ==
    /\ mhist.last = "return"
    /\ mhist.ret = 3
    /\ mhist.read = 2
    /\ Len(elog) = 5
    /\ elog[3].content.claim.source_event_id = 1
    /\ elog[4].content.claim.source_event_id = 2
    /\ elog[5].content.claim.source_event_id = 2

-----------------------------------------------------------------------------
(* SpecFail: observe() on a log whose append may raise *)

FailPool ==
    {<<"claim_register", ClaimContent(DetOff)>>,
     <<"claim_register", ClaimContent(DetA)>>,
     <<"claim_register", ClaimContent(DupA)>>,
     <<"reflection", ReflectionContent("plan")>>,
     <<"user_message", TextContent>>}

InitFail ==
    /\ xin = <<>> /\ xout = <<>>
    /\ log = <<>> /\ rsm = FreshRSM /\ stack = <<>> /\ mode = "manual"
    /\ pool = FailPool /\ nExt = 0 /\ burst = 0 /\ dropped = FALSE
    /\ MigAtRest
    /\ MGAtRest

\* A producer appends an event and the self-model observes it.  When the
\* observe() call comes to append its rsm_update, append() raises or not;
\* a raise leaves observe() at line 346 and reaches the caller ("raised").
ObserveOrRaise(e, raises) ==
    /\ e \in pool
    /\ nExt < MaxObs
    /\ nExt' = nExt + 1
    /\ LET l == Append(log, MkEvent(log, e[1], e[2], "external"))
           r == ObserveState(rsm, l[Len(l)])
           p == observe([rsm |-> rsm, log |-> l], l[Len(l)])
       IN  IF Emits(r, l) /\ raises
           THEN /\ log' = l
                /\ rsm' = r
                /\ stack' = <<Frame(Len(l), "raised", <<>>)>>
           ELSE /\ log' = p.log
                /\ rsm' = p.rsm
                /\ stack' = <<>>
    /\ UNCHANGED <<mode, pool, burst, dropped, migVars, mgVars, exVars>>

NextFail == \E e \in FailPool, raises \in BOOLEAN : ObserveOrRaise(e, raises)

SpecFail == InitFail /\ [][NextFail]_vars

\* The call of the step raised / returned.
Raised == stack' # <<>> /\ nExt' = nExt + 1
Returned == stack' = <<>> /\ nExt' = nExt + 1

\* A raise of append reaches the caller with the event counted as observed:
\* the watermark is the event's id, its claim is stored, and the last emitted
\* snapshot is the one before the call.
SurfacedAndCounted ==
    Raised =>
        /\ stack'[1].pc = "raised"
        /\ Len(log') = Len(log) + 1
        /\ rsm'.last_processed_event_id = Len(log')
        /\ rsm'.last_snapshot = rsm.last_snapshot
        /\ rsm'.last_snapshot # <<snapshot(rsm', log')>>
        /\ (log'[Len(log')].kind = "claim_register"
              => rsm'.claims[log'[Len(log')].content.claim.claim_id]
                   = log'[Len(log')].content.claim)

\* C33: a raise of append during observe() reaches the caller, the event
\* stays counted as observed, and the next observe() call that returns
\* appends one rsm_update that carries the snapshot of that moment.
C33_FailedAppendRetried ==
    [][/\ SurfacedAndCounted
       /\ stack # <<>> /\ Returned =>
             /\ Len(log') = Len(log) + 2
             /\ log'[Len(log')].kind = "rsm_update"
             /\ log'[Len(log')].content.snapshot = <<snapshot(rsm', log')>>]_vars

\* C33, as the code has it: after a raise, the next observe() call that
\* returns appends one rsm_update with the snapshot of that moment unless
\* that snapshot equals the last one emitted, and then it appends nothing;
\* either way the last emitted snapshot is then the current one.
C33_FailedAppendCaughtUp ==
    [][/\ SurfacedAndCounted
       /\ stack # <<>> /\ Returned =>
             /\ rsm'.last_snapshot = <<snapshot(rsm', log')>>
             /\ IF rsm.last_snapshot = <<snapshot(rsm', log')>>
                THEN Len(log') = Len(log) + 1
                ELSE /\ Len(log') = Len(log) + 2
                     /\ log'[Len(log')].kind = "rsm_update"
                     /\ log'[Len(log')].content.snapshot = <<snapshot(rsm', log')>>]_vars

\* C33 witness: the update for the active claim was not appended, and the
\* update appended after the reflection that follows shows the claim.
C33_Witness ==
    /\ Len(log) = 5
    /\ stack = <<>>
    /\ log[2].kind = "rsm_update"
    /\ log[3].kind = "claim_register" /\ log[3].content.claim = DetA
    /\ log[4].kind = "reflection"
    /\ log[5].kind = "rsm_update"
    /\ log[5].content.snapshot[1].active_claim_count = 1
    /\ rsm.last_snapshot = log[5].content.snapshot

-----------------------------------------------------------------------------
(* SpecBind: the binding map of rebuild_ctl_from_projections
   (ctl_projection.py) *)

\* A ledger event as the binding loop reads it: id, kind and meta.source
\* (Absent: meta has no source; None: the source is null).
BindEvent(id, kind, source) == [id |-> id, kind |-> kind, source |-> source]

\* A concept token f"{prefix}:{value}"; str(None) is "None".
Token(prefix, value) == <<prefix, value>>

\* bindings.setdefault(eid, []).append(token)
Bound(bindings, eid, token) ==
    [e \in DOMAIN bindings \cup {eid} |->
        IF e = eid
        THEN (IF eid \in DOMAIN bindings THEN bindings[eid] ELSE <<>>) \o <<token>>
        ELSE bindings[e]]

\* The first loop: open_commitments as the list of its items <<cid, event_id>>
\* in the order of the map; int(event_id) raises for NonNumeric.
RECURSIVE BindCommitments(_, _)
BindCommitments(bindings, open_commitments) ==
    IF open_commitments = <<>> THEN bindings
    ELSE LET cid      == Head(open_commitments)[1]
             event_id == Head(open_commitments)[2]
         IN  BindCommitments(IF event_id = NonNumeric THEN bindings
                             ELSE Bound(bindings, event_id, Token("commitment", cid)),
                             Tail(open_commitments))

\* The token of the second loop for an event, <<>> for none, with the source
\* of a reflection read as meta.source or "user"
KindTokenSourceOrUser(ev) ==
    CASE ev.kind = "stability_metrics" -> <<Token("metric", "stability_score")>>
      [] ev.kind = "coherence_check"   -> <<Token("metric", "coherence_score")>>
      [] ev.kind = "summary_update"    -> <<Token("topic", "summary_state")>>
      [] ev.kind = "reflection" ->
            <<Token("reflection_source",
                    IF ev.source \in {Absent, None, ""} THEN "user" ELSE ev.source)>>
      [] OTHER -> <<>>

\* The token of the second loop for an event, <<>> for none; the source of
\* a reflection is meta.get("source", "user").
KindToken(ev) ==
    CASE ev.kind = "stability_metrics" -> <<Token("metric", "stability_score")>>
      [] ev.kind = "coherence_check"   -> <<Token("metric", "coherence_score")>>
      [] ev.kind = "summary_update"    -> <<Token("topic", "summary_state")>>
      [] ev.kind = "reflection" ->
            <<Token("reflection_source",
                    IF ev.source = Absent THEN "user" ELSE ev.source)>>
      [] OTHER -> <<>>

RECURSIVE BindKinds(_, _)
BindKinds(bindings, events) ==
    IF events = <<>> THEN bindings
    ELSE LET ev == Head(events)
         IN  BindKinds(IF KindToken(ev) = <<>> THEN bindings
                       ELSE Bound(bindings, ev.id, KindToken(ev)[1]),
                       Tail(events))

\* The map handed to get_concept_edges as concept_bindings (lines 47-76)
concept_bindings_of(events, open_commitments) ==
    BindKinds(BindCommitments(<<>>, open_commitments), events)

BindTemplates ==
    {<<"stability_metrics", Absent>>, <<"coherence_check", Absent>>,
     <<"summary_update", Absent>>, <<"commitment_open", Absent>>,
     <<"user_message", Absent>>, <<"reflection", Absent>>,
     <<"reflection", "rsm">>, <<"reflection", "">>}

\* mirror.open_commitments: none; the commitment of the first event; a
\* commitment without a usable event_id beside two of the second event.
OpenCommitments ==
    {<<>>, <<<<"c1", 1>>>>, <<<<"c1", NonNumeric>>, <<"c2", 2>>, <<"c3", 2>>>>}

InitBind ==
    /\ xin = <<>> /\ xout = <<>>
    /\ mlog = <<>> /\ graph = EmptyGraph /\ mfed = NotFed
    /\ ThreadsAtRest
    /\ RSMAtRest
    /\ MigAtRest

BindAppend(t) ==
    /\ Len(mlog) < MaxEvents
    /\ mlog' = Append(mlog, BindEvent(Len(mlog) + 1, t[1], t[2]))
    /\ xin' = <<>> /\ xout' = <<>>
    /\ UNCHANGED <<graph, mfed, thrVars, rsmVars, migVars>>

\* rebuild_ctl_from_projections up to the call of get_concept_edges
Bind(open_commitments) ==
    /\ xin' = <<open_commitments>>
    /\ xout' = <<concept_bindings_of(mlog, open_commitments)>>
    /\ UNCHANGED <<mgVars, rsmVars, migVars>>

NextBind ==
    \/ \E t \in BindTemplates : BindAppend(t)
    \/ \E oc \in OpenCommitments : Bind(oc)

SpecBind == InitBind /\ [][NextBind]_vars

\* C34: the binding map binds each stability_metrics event to
\* metric:stability_score, each coherence_check event to
\* metric:coherence_score, each summary_update event to topic:summary_state,
\* each reflection event to reflection_source:<s> with s the meta.source
\* when that is there and not empty and "user" otherwise, and the event of
\* each open commitment with an integer event_id to commitment:<cid>; nothing
\* else is bound.
C34_BindingMap ==
    \A k \in DOMAIN xin :
        LET oc == xin[k]
            b  == xout[k]
            Of(e) == IF e \in DOMAIN b THEN Range(b[e]) ELSE {}
            ByKind(ev) ==
                CASE ev.kind = "stability_metrics" -> {<<"metric", "stability_score">>}
                  [] ev.kind = "coherence_check"   -> {<<"metric", "coherence_score">>}
                  [] ev.kind = "summary_update"    -> {<<"topic", "summary_state">>}
                  [] ev.kind = "reflection" ->
                        {<<"reflection_source",
                           IF ev.source # Absent /\ ev.source # None /\ ev.source # ""
                           THEN ev.source ELSE "user">>}
                  [] OTHER -> {}
            ByCommitment(e) ==
                {<<"commitment", oc[i][1]>> : i \in {j \in DOMAIN oc : oc[j][2] = e}}
            ids == {mlog[i].id : i \in DOMAIN mlog}
                   \cup {oc[i][2] : i \in DOMAIN oc} \cup DOMAIN b
        IN  \A e \in ids \ {NonNumeric} :
                Of(e) = ByCommitment(e)
                        \cup (IF e \in DOMAIN mlog THEN ByKind(mlog[e]) ELSE {})

-----------------------------------------------------------------------------
(* SpecRebuild: rebuild called again on the same self-model *)

\* A self-model just constructed on a ledger of events of the producers.
InitRebuild ==
    /\ xin = <<>> /\ xout = <<>>
    /\ \E es \in StoreLedgers :
          log = [i \in DOMAIN es |->
                    [id |-> i, kind |-> es[i][1], content |-> es[i][2],
                     meta |-> [source |-> "external"]]]
    /\ rsm = FreshRSM
    /\ stack = <<>> /\ mode = "manual" /\ pool = StorePool
    /\ nExt = 0 /\ burst = 0 /\ dropped = FALSE
    /\ MigAtRest
    /\ MGAtRest

\* rsm.rebuild(events): the first call reads the ledger, every later call
\* is given the events of the first; xout keeps the number of events each
\* call appended.
RsmRebuild ==
    /\ nExt < MaxCalls
    /\ nExt' = nExt + 1
    /\ LET events == IF xin = <<>> THEN log ELSE xin[1]
           p      == rsm_rebuild(log, events)
       IN  /\ log' = p.log /\ rsm' = p.rsm
           /\ xin' = <<events>>
           /\ xout' = Append(xout, Len(p.log) - Len(log))
    /\ UNCHANGED <<stack, mode, pool, burst, dropped, migVars, mgVars>>

NextRebuild == RsmRebuild

SpecRebuild == InitRebuild /\ [][NextRebuild]_vars

\* C35: with an event log configured, a second rebuild(events) on the same
\* self-model with the same events appends no further rsm_update event.
C35_RebuildIdempotent ==
    \A k \in DOMAIN xout : k >= 2 => xout[k] = 0

-----------------------------------------------------------------------------
(* Properties of SpecQuery: the direction of the edges *)

\* The nodes joined in strictly ascending id order: the graph is the one
\* that add_event calls in that order build (a call for an event that is
\* not tracked or is a node already changes nothing).
FedAscending ==
    \A i, j \in DOMAIN graph.nodes : i < j => graph.nodes[i] < graph.nodes[j]

\* C36: in a graph built by add_event calls in strictly ascending id order
\* every edge u -> v has v < u, so that there is no self-loop and no cycle.
C36_EdgesPointBackwards ==
    FedAscending => \A e \in graph.edges : e[2] < e[1]

-----------------------------------------------------------------------------
(* SpecAgree: the contradiction utility asked about the claims the
   self-model holds *)

\* Claims about one subject and predicate that differ in object, in negation
\* and in status, a claim about another subject, and pairs of claims without
\* a subject or with an empty predicate.
AgreeClaims ==
    {MkClaim(1, "BELIEF", "self", "prioritizes", "stability", FALSE, 100, "active"),
     MkClaim(2, "BELIEF", "self", "prioritizes", "novelty", FALSE, 100, "active"),
     MkClaim(3, "BELIEF", "self", "prioritizes", "stability", TRUE, 100, "active"),
     MkClaim(4, "BELIEF", "user", "prioritizes", "novelty", FALSE, 100, "active"),
     MkClaim(5, "BELIEF", "self", "prioritizes", "novelty", FALSE, 100, "retracted"),
     MkClaim(6, "BELIEF", None, "prioritizes", "novelty", FALSE, 100, "active"),
     MkClaim(7, "BELIEF", "self", "", "novelty", FALSE, 100, "active"),
     MkClaim(8, "BELIEF", "self", "", "stability", FALSE, 100, "active"),
     MkClaim(9, "BELIEF", None, "prioritizes", "stability", FALSE, 100, "active")}

AgreeLedgers ==
    UNION {[1..n -> AgreeClaims] : n \in 0..MaxStored}

\* A self-model rebuilt from a ledger of claim_register events.
InitAgree ==
    /\ xin = <<>> /\ xout = <<>>
    /\ \E cs \in AgreeLedgers :
          LET l == [i \in DOMAIN cs |->
                      [id |-> i, kind |-> "claim_register",
                       content |-> ClaimContent(cs[i]),
                       meta |-> [source |-> "external"]]]
              p == rsm_rebuild(l, l)
          IN  log = p.log /\ rsm = p.rsm
    /\ stack = <<>> /\ mode = "manual" /\ pool = {}
    /\ nExt = 0 /\ burst = 0 /\ dropped = FALSE
    /\ MigAtRest
    /\ MGAtRest

\* The claims of the ids, as a list in id order
ClaimList(claims, ids) ==
    [i \in 1..Cardinality(ids) |-> claims[SortedInts(ids)[i]]]

\* detect_contradictions(the other active claims, the record of c) for an
\* active claim c of the self-model
DetectAgainstOthers ==
    \E c \in ActiveIds(rsm.claims) :
        LET others == ClaimList(rsm.claims, ActiveIds(rsm.claims) \ {c})
        IN  /\ xin' = <<[claims |-> others, new_claim |-> rsm.claims[c]]>>
            /\ xout' = <<detect_contradictions(others, rsm.claims[c])>>
            /\ UNCHANGED <<rsmVars, migVars, mgVars>>

NextAgree == DetectAgainstOthers

SpecAgree == InitAgree /\ [][NextAgree]_vars

\* C37 as stated: an active claim c of the self-model is in
\* contradiction_events exactly when detect_contradictions(the other active
\* claims, the record of c) is not empty.
C37_DetectorsAgree ==
    \A k \in DOMAIN xin :
        (xin[k].new_claim.claim_id \in Range(rsm.contradiction_events))
            <=> (xout[k] # <<>>)

\* C37 amended: the two agree for a claim that has a subject and a
\* predicate; for a claim without one of them detect_contradictions is
\* empty whatever contradiction_events holds.
C37_DetectorsAgreeOnKeyed ==
    \A k \in DOMAIN xin :
        LET c == xin[k].new_claim
        IN  IF c.subject \in {None, ""} \/ c.predicate \in {None, ""}
            THEN xout[k] = <<>>
            ELSE (c.claim_id \in Range(rsm.contradiction_events))
                     <=> (xout[k] # <<>>)

\* C37 witness: the utility was asked about a claim with subject and
\* predicate that the self-model lists in contradiction_events, and it
\* named another claim
C37_Witness ==
    /\ Len(xin) = 1
    /\ xin[1].new_claim.subject = "self"
    /\ xin[1].new_claim.predicate = "prioritizes"
    /\ xin[1].new_claim.claim_id \in Range(rsm.contradiction_events)
    /\ xout[1] # <<>>

-----------------------------------------------------------------------------
(* Properties of SpecMig: claim ids within one message *)

\* The last migrate call returned after reading a ledger without a
\* claim_register event.
ReturnedOnFreshLedger ==
    /\ mhist.last = "return"
    /\ \A i \in 1..mhist.read : elog[i].kind # "claim_register"

\* The events the last call appended that carry a claim of message m
EmittedFor(m) ==
    {k \in (mhist.read + 1)..(mhist.read + mhist.ret) :
        elog[k].content.claim.source_event_id = m}

\* C38 as stated: the records of one extract call have pairwise distinct
\* claim_ids, and the migrator emits for a message as many claim_register
\* events as the extractor returns records for it.
C38_UniquePerExtraction ==
    /\ \A i \in DOMAIN elog :
          LET r == extract_claims_from_event(elog[i])
          IN  \A j, k \in DOMAIN r : j # k => r[j].claim_id # r[k].claim_id
    /\ ReturnedOnFreshLedger =>
          \A m \in 1..mhist.read :
              Cardinality(EmittedFor(m)) = Len(extract_claims_from_event(elog[m]))

\* C38 amended: two records of one extract call have the same claim_id
\* exactly when they come from equal lines, and on a ledger without
\* claim_register events the migrator emits for a message as many events as
\* its records have distinct claim_ids.
C38_UniquePerLine ==
    /\ \A i \in DOMAIN elog :
          LET r == extract_claims_from_event(elog[i])
          IN  \A j, k \in DOMAIN r :
                  (r[j].claim_id = r[k].claim_id) <=> (r[j].raw_text = r[k].raw_text)
    /\ ReturnedOnFreshLedger =>
          \A m \in 1..mhist.read :
              LET r == extract_claims_from_event(elog[m])
              IN  Cardinality(EmittedFor(m))
                     = Cardinality({r[j].claim_id : j \in DOMAIN r})

\* C38 witness: a call has returned on a fresh ledger holding a message that
\* states one claim line twice, and has emitted for it.
C38_Witness ==
    /\ ReturnedOnFreshLedger
    /\ \E m \in 1..mhist.read :
          /\ elog[m].kind = "assistant_message"
          /\ Len(extract_claims_from_event(elog[m])) = 2
          /\ Cardinality(EmittedFor(m)) = 1

-----------------------------------------------------------------------------
(* Properties of SpecConcept: symmetry *)

\* C39: whenever get_concept_edges returns an entry (source_id = a,
\* target_id = b, relation = r) it also returns (source_id = b,
\* target_id = a, relation = r).
C39_ConceptEdgesSymmetric ==
    \A k \in DOMAIN xout :
        \A i \in DOMAIN xout[k] :
            \E j \in DOMAIN xout[k] :
                /\ xout[k][j].source_id = xout[k][i].target_id
                /\ xout[k][j].target_id = xout[k][i].source_id
                /\ xout[k][j].relation = xout[k][i].relation

\* C39 witness: get_concept_edges has returned an entry between two
\* concepts whose relation is the label of a graph edge.
C39_Witness ==
    /\ Len(xout) = 1
    /\ \E i \in DOMAIN xout[1] :
          /\ xout[1][i].source_id # xout[1][i].target_id
          /\ xout[1][i].relation \in {"replies_to", "commits_to", "closes", "reflects_on"}

-----------------------------------------------------------------------------
(* SpecTyped: graphs over ledgers with two commitments *)

\* What producers append: a conversation, two commitments made by one
\* message, the closing of the second, and a reflection.
\* <<kind, meta.text, meta.cid, reflects on the first event, commitments>>
TypedPool ==
    {<<"user_message", None, None, FALSE, {}>>,
     <<"assistant_message", None, None, FALSE, {"ship"}>>,
     <<"commitment_open", "ship", "c1", FALSE, {}>>,
     <<"commitment_open", "ship", "c2", FALSE, {}>>,
     <<"commitment_close", None, "c2", FALSE, {}>>,
     <<"reflection", None, None, TRUE, {}>>}

TypedAppend(t) ==
    /\ Len(mlog) < MaxEvents
    /\ mlog' = Append(mlog, GraphEvent(Len(mlog) + 1, t[1], t[2], t[3],
                                       IF t[4] THEN 1 ELSE 0, t[5]))
    /\ UNCHANGED <<graph, mfed, thrVars, rsmVars, migVars, exVars>>

NextTyped ==
    \/ \E t \in TypedPool : TypedAppend(t)
    \/ \E i \in 1..MaxEvents : Sync(i)
    \/ Resync

SpecTyped == InitMG /\ [][NextTyped]_vars

\* C40: every edge carries one of the labels replies_to, commits_to, closes,
\* reflects_on; a replies_to edge goes from an assistant_message node to a
\* user_message node, a commits_to edge from a commitment_open node to an
\* assistant_message node, a closes edge from a commitment_close node to a
\* commitment_open node with the same cid, and a reflects_on edge leaves a
\* reflection node.
C40_EdgesTypedByKinds ==
    \A e \in graph.edges :
        CASE e[3] = "replies_to" ->
                /\ graph.kind[e[1]] = "assistant_message"
                /\ graph.kind[e[2]] = "user_message"
          [] e[3] = "commits_to" ->
                /\ graph.kind[e[1]] = "commitment_open"
                /\ graph.kind[e[2]] = "assistant_message"
          [] e[3] = "closes" ->
                /\ graph.kind[e[1]] = "commitment_close"
                /\ graph.kind[e[2]] = "commitment_open"
                /\ mlog[e[1]].cid = mlog[e[2]].cid
          [] e[3] = "reflects_on" ->
                graph.kind[e[1]] = "reflection"
          [] OTHER -> FALSE

\* C40 witness: the commitment c2 was closed in a graph that also holds the
\* open node of c1, which joined before that of c2.
C40_Witness ==
    \E e \in graph.edges :
        /\ e[3] = "closes" /\ mlog[e[2]].cid = "c2"
        /\ \E i, j \in DOMAIN graph.nodes :
              /\ i < j /\ graph.nodes[j] = e[2]
              /\ graph.kind[graph.nodes[i]] = "commitment_open"
              /\ mlog[graph.nodes[i]].cid = "c1"

====
